---- MODULE Spec2Model ----
(***************************************************************************)
(* Backend process supervision and streaming protocol of VideoSyncMaster   *)
(* (ui/electron/main.ts): the run-backend and kill-backend IPC handlers,   *)
(* the stdout/stderr/close callbacks of the spawned worker, the decoding   *)
(* of the worker's output, and the cache-video IPC handler.                *)
(*                                                                         *)
(* Text is a sequence of one-character strings.  The worker's output is    *)
(* ASCII, for which Buffer.toString() yields one code unit per byte.       *)
(***************************************************************************)
EXTENDS Integers, Sequences, FiniteSets, TLC

(***************************************************************************)
(* Bounds of the model.                                                    *)
(***************************************************************************)
\* run-backend requests in one behaviour of Spec
MaxJobs == 2
\* stdout 'data' events per worker in Spec
MaxData == 1
\* stdout 'data' events of the worker in CodecSpec
MaxCodecData == 3
\* stderr 'data' events of the worker in CodecSpec
MaxErrData == 1
\* run-backend requests in EnvSpec
MaxEnvJobs == 1
\* stdout 'data' events of the worker in LineSpec
MaxLineData == 3
\* stdout and stderr 'data' events of a child in DepSpec
MaxDepData == 2
MaxDepErrData == 1
MaxMixData == 2
MaxShapeData == 3
\* the changes of Index-TTS parameters the user makes in the settings panel
MaxPanelEdits == 2

Jobs == 1..MaxJobs

(***************************************************************************)
(* String literals of main.ts.                                             *)
(***************************************************************************)
startMarker == <<"_","_","J","S","O","N","_","S","T","A","R","T","_","_">>
endMarker == <<"_","_","J","S","O","N","_","E","N","D","_","_">>
progressTag == <<"[","P","R","O","G","R","E","S","S","]">>
partialTag == <<"[","P","A","R","T","I","A","L","]">>
rawOutputKey == <<"r","a","w","O","u","t","p","u","t">>
rawErrorKey == <<"r","a","w","E","r","r","o","r">>

(***************************************************************************)
(* JavaScript string primitives used by the handlers (indices 0-based).    *)
(***************************************************************************)
\* \s of a regular expression and the characters String.prototype.trim strips
WhiteSpace == {" ", "\n", "\t", "\r"}
\* characters that "." of a regular expression does not match
LineTerminators == {"\n", "\r"}
\* \d of a regular expression
Digits == {"0","1","2","3","4","5","6","7","8","9"}

Min(a, b) == IF a <= b THEN a ELSE b
Max(a, b) == IF a >= b THEN a ELSE b

\* whether pat occurs in s at 0-based index i
StartsAt(s, pat, i) ==
    /\ i >= 0
    /\ i + Len(pat) <= Len(s)
    /\ \A k \in 1..Len(pat) : s[i + k] = pat[k]

\* the least element of a non-empty set of integers
Least(S) == CHOOSE i \in S : \A k \in S : i <= k

\* the first index >= from at which pat occurs in s, or -1
indexFrom(s, pat, from) ==
    LET hits == {i \in from..(Len(s) - Len(pat)) : StartsAt(s, pat, i)}
    IN  IF hits = {} THEN -1 ELSE Least(hits)

\* String.prototype.indexOf(pat): first index of pat in s, or -1
indexOf(s, pat) == indexFrom(s, pat, 0)

\* String.prototype.substring(a, b): arguments clamped to [0, length] and swapped
\* when a > b
substring(s, a, b) ==
    LET ca == Max(0, Min(a, Len(s)))
        cb == Max(0, Min(b, Len(s)))
    IN  SubSeq(s, Min(ca, cb) + 1, Max(ca, cb))

\* the number of leading characters of s, after the first `from`, that are in class,
\* added to `from`
RunEnd(s, from, class) ==
    LET stop == {i \in (from + 1)..Len(s) : s[i] \notin class}
    IN  IF stop = {} THEN Len(s) ELSE Least(stop) - 1

\* String.prototype.trim()
trim(s) ==
    LET keep == {i \in 1..Len(s) : s[i] \notin WhiteSpace}
    IN  IF keep = {} THEN <<>>
        ELSE SubSeq(s, Least(keep), CHOOSE i \in keep : \A k \in keep : i >= k)

\* String.prototype.split('\n')
RECURSIVE split(_)
split(s) ==
    LET i == indexOf(s, <<"\n">>)
    IN  IF i = -1 THEN <<s>>
        ELSE <<SubSeq(s, 1, i)>> \o split(SubSeq(s, i + 2, Len(s)))

DigitValue(c) ==
    CASE c = "0" -> 0 [] c = "1" -> 1 [] c = "2" -> 2 [] c = "3" -> 3
      [] c = "4" -> 4 [] c = "5" -> 5 [] c = "6" -> 6 [] c = "7" -> 7
      [] c = "8" -> 8 [] c = "9" -> 9

\* parseInt(ds, 10) of a non-empty string of decimal digits
RECURSIVE parseInt(_)
parseInt(ds) ==
    IF Len(ds) = 0 THEN 0
    ELSE 10 * parseInt(SubSeq(ds, 1, Len(ds) - 1)) + DigitValue(ds[Len(ds)])

\* the number of leading characters of s, after the first `from`, that are not in
\* stop, added to `from`
RunUntil(s, from, stop) ==
    LET hit == {i \in (from + 1)..Len(s) : s[i] \in stop}
    IN  IF hit = {} THEN Len(s) ELSE Least(hit) - 1

(***************************************************************************)
(* JSON values and JSON.parse.  A value is a record of one shape:          *)
(*   t = "num" with n, t = "str" with s, t = "obj" with kv, a sequence of  *)
(*   <<key, value>> pairs in member order, t = "arr" with kv, the sequence *)
(*   of its items.                                                         *)
(* The grammar covers objects, arrays, strings without escapes and         *)
(* non-negative integers, which is every JSON text that can be formed over *)
(* the characters the modelled processes write.                            *)
(***************************************************************************)
JNone == [t |-> "none", n |-> 0, s |-> <<>>, kv |-> <<>>]
JNum(n) == [t |-> "num", n |-> n, s |-> <<>>, kv |-> <<>>]
JStr(s) == [t |-> "str", n |-> 0, s |-> s, kv |-> <<>>]
JObj(kv) == [t |-> "obj", n |-> 0, s |-> <<>>, kv |-> kv]
JArr(items) == [t |-> "arr", n |-> 0, s |-> <<>>, kv |-> items]

ParseFail == [ok |-> FALSE, v |-> JNone, at |-> 0]

\* characters that may not appear raw inside a JSON string
StringStop == {"\"", "\n", "\t", "\r", "\\"}

RECURSIVE parseValue(_, _)
RECURSIVE parseMembers(_, _, _)
RECURSIVE parseItems(_, _, _)
\* one JSON value of s after skipping `from` characters and white space;
\* at = the number of characters consumed
parseValue(s, from) ==
    LET p == RunEnd(s, from, WhiteSpace)
    IN  IF p >= Len(s) THEN ParseFail
        ELSE LET c == s[p + 1]
             IN  CASE c \in Digits ->
                        LET e == IF c = "0" THEN p + 1 ELSE RunEnd(s, p, Digits)
                        IN  [ok |-> TRUE, v |-> JNum(parseInt(SubSeq(s, p + 1, e))), at |-> e]
                   [] c = "\"" ->
                        LET e == RunUntil(s, p + 1, StringStop)
                        IN  IF e < Len(s) /\ s[e + 1] = "\""
                            THEN [ok |-> TRUE, v |-> JStr(SubSeq(s, p + 2, e)), at |-> e + 1]
                            ELSE ParseFail
                   [] c = "{" ->
                        LET q == RunEnd(s, p + 1, WhiteSpace)
                        IN  IF q < Len(s) /\ s[q + 1] = "}"
                            THEN [ok |-> TRUE, v |-> JObj(<<>>), at |-> q + 1]
                            ELSE parseMembers(s, p + 1, <<>>)
                   [] c = "[" ->
                        LET q == RunEnd(s, p + 1, WhiteSpace)
                        IN  IF q < Len(s) /\ s[q + 1] = "]"
                            THEN [ok |-> TRUE, v |-> JArr(<<>>), at |-> q + 1]
                            ELSE parseItems(s, p + 1, <<>>)
                   [] OTHER -> ParseFail

\* the members of an object after its "{" or a ",", up to and including "}"
parseMembers(s, from, acc) ==
    LET k == parseValue(s, from)
    IN  IF ~k.ok \/ k.v.t # "str" THEN ParseFail
        ELSE LET r == RunEnd(s, k.at, WhiteSpace)
             IN  IF ~(r < Len(s) /\ s[r + 1] = ":") THEN ParseFail
                 ELSE LET v == parseValue(s, r + 1)
                      IN  IF ~v.ok THEN ParseFail
                          ELSE LET u == RunEnd(s, v.at, WhiteSpace)
                                   kv == Append(acc, <<k.v.s, v.v>>)
                               IN  IF u >= Len(s) THEN ParseFail
                                   ELSE IF s[u + 1] = "," THEN parseMembers(s, u + 1, kv)
                                   ELSE IF s[u + 1] = "}"
                                        THEN [ok |-> TRUE, v |-> JObj(kv), at |-> u + 1]
                                   ELSE ParseFail

\* the items of an array after its "[" or a ",", up to and including "]"
parseItems(s, from, acc) ==
    LET v == parseValue(s, from)
    IN  IF ~v.ok THEN ParseFail
        ELSE LET u == RunEnd(s, v.at, WhiteSpace)
                 items == Append(acc, v.v)
             IN  IF u >= Len(s) THEN ParseFail
                 ELSE IF s[u + 1] = "," THEN parseItems(s, u + 1, items)
                 ELSE IF s[u + 1] = "]"
                      THEN [ok |-> TRUE, v |-> JArr(items), at |-> u + 1]
                 ELSE ParseFail

\* JSON.parse(text): ok = FALSE stands for the SyntaxError it throws
JSONParse(text) ==
    LET r == parseValue(text, 0)
    IN  IF r.ok /\ RunEnd(text, r.at, WhiteSpace) = Len(text)
        THEN [ok |-> TRUE, v |-> r.v]
        ELSE [ok |-> FALSE, v |-> JNone]

DigitChar(d) ==
    CASE d = 0 -> "0" [] d = 1 -> "1" [] d = 2 -> "2" [] d = 3 -> "3"
      [] d = 4 -> "4" [] d = 5 -> "5" [] d = 6 -> "6" [] d = 7 -> "7"
      [] d = 8 -> "8" [] d = 9 -> "9"

RECURSIVE Decimal(_)
Decimal(n) == IF n < 10 THEN <<DigitChar(n)>> ELSE Decimal(n \div 10) \o <<DigitChar(n % 10)>>

\* the worker's serializer: the compact JSON text of a value
RECURSIVE Serialize(_)
RECURSIVE SerializeMembers(_)
Serialize(v) ==
    CASE v.t = "num" -> Decimal(v.n)
      [] v.t = "str" -> <<"\"">> \o v.s \o <<"\"">>
      [] v.t = "obj" -> <<"{">> \o SerializeMembers(v.kv) \o <<"}">>

SerializeMembers(kv) ==
    IF Len(kv) = 0 THEN <<>>
    ELSE <<"\"">> \o kv[1][1] \o <<"\"", ":">> \o Serialize(kv[1][2])
         \o (IF Len(kv) = 1 THEN <<>> ELSE <<",">> \o SerializeMembers(Tail(kv)))

(***************************************************************************)
(* The two regular expressions of the stdout 'data' callback.              *)
(***************************************************************************)
NoMatch == [found |-> FALSE, group |-> <<>>]

\* line.match(/\[PROGRESS\]\s*(\d+)/): the leftmost occurrence of the tag that
\* is followed, after white space, by a digit; group 1 is the run of digits
RECURSIVE progressFrom(_, _)
progressFrom(line, from) ==
    LET i == indexFrom(line, progressTag, from)
    IN  IF i = -1 THEN NoMatch
        ELSE LET p == RunEnd(line, i + Len(progressTag), WhiteSpace)
                 e == RunEnd(line, p, Digits)
             IN  IF e > p THEN [found |-> TRUE, group |-> SubSeq(line, p + 1, e)]
                 ELSE progressFrom(line, i + 1)

progressMatch(line) == progressFrom(line, 0)

\* line.match(/\[PARTIAL\]\s*(.*)/): the leftmost occurrence of the tag; group 1
\* is what follows the white space, up to a line terminator
partialMatch(line) ==
    LET i == indexOf(line, partialTag)
    IN  IF i = -1 THEN NoMatch
        ELSE LET p == RunEnd(line, i + Len(partialTag), WhiteSpace)
             IN  [found |-> TRUE,
                  group |-> SubSeq(line, p + 1, RunUntil(line, p, LineTerminators))]

(***************************************************************************)
(* State.                                                                  *)
(***************************************************************************)
VARIABLES
    isPackaged,            \* app.isPackaged
    platform,              \* process.platform
    calls,                 \* the number of run-backend requests handled so far
    activeBackendProcess,  \* the tracked worker (a job number), 0 for null
    proc,                  \* per job: "none", "nospawn", "running", "exited", "closed"
    exitCode,              \* per job: the code its 'close' event carries
    outputData,            \* per job: the closure variable outputData
    errorData,             \* per job: the closure variable errorData
    promise,               \* per job: the promise run-backend returned
    settleCalls,           \* per job: how many times resolve or reject was called
    sent,                  \* per job: the events sent to the renderer, in order
    stdoutRaw,             \* per job: everything the worker's stdout delivered
    stderrRaw,             \* per job: everything the worker's stderr delivered
    nData,                 \* per job: the number of stdout 'data' events so far
    cuts,                  \* per job: the lengths of stdoutRaw at which a 'data' event ended
    nErrData,              \* per job: the number of stderr 'data' events so far
    killed,                \* per job: "tracked" / "untracked" once kill-backend was
                           \* called while the job was alive, else "no"
    taskkill,              \* the workers a started taskkill command has yet to reach
    files,                 \* per job: the paths that existed when run-backend looked
    spawnCall,             \* per job: the call of spawn made for it, NoSpawn if none
    request,               \* per job: the argument list of the run-backend request
    child,                 \* per job: a process started by the worker: "none",
                           \* "running" or "ended"
    cacheDirExists,        \* whether the directory .cache exists
    cacheFiles,            \* per destination path: "absent", "partial" or "full"
    cacheCalls,            \* the cache-video requests so far, one record each
    dep,                   \* the latest fix-python-env or check-python-env request
    bat,                   \* the run of the launcher script start.bat
    panel,                 \* the Index-TTS settings panel (component TTSConfig)
    localStorage           \* the renderer's localStorage: the keys present, with their strings

vars == <<isPackaged, platform, calls, activeBackendProcess, proc, exitCode,
          outputData, errorData, promise, settleCalls, sent, stdoutRaw, stderrRaw,
          nData, cuts, nErrData, killed, taskkill, files, spawnCall, request, child,
          cacheDirExists, cacheFiles, cacheCalls, dep, bat, panel, localStorage>>

\* the state of the cache-video handler
cacheVars == <<cacheDirExists, cacheFiles, cacheCalls>>
\* the state of the fix-python-env and check-python-env handlers
depVars == <<dep>>
\* the state of the launcher script
batVars == <<bat>>
\* the state of the settings panel and of the storage it saves to
panelVars == <<panel, localStorage>>
\* the state of the run-backend and kill-backend handlers
backendVars == <<calls, activeBackendProcess, proc, exitCode, outputData, errorData,
                 promise, settleCalls, sent, stdoutRaw, stderrRaw, nData, cuts,
                 nErrData, killed, taskkill, files, spawnCall, request, child>>

\* the exit code null that 'close' carries for a worker ended by a signal
NullCode == -1

(***************************************************************************)
(* Outcomes of the run-backend promise.                                    *)
(***************************************************************************)
Pending == [kind |-> "pending", err |-> "", code |-> 0, text |-> <<>>, value |-> JNone]
\* resolve(value)
Resolved(v) == [kind |-> "resolved", err |-> "", code |-> 0, text |-> <<>>, value |-> v]
\* reject(new Error(`Python process exited with code ${code}. Error: ${errorData}`))
ExitError(code, err) ==
    [kind |-> "rejected", err |-> "exit", code |-> code, text |-> err, value |-> JNone]
\* reject(new Error(`Failed to parse backend output: ${e}`))
ParseError == [kind |-> "rejected", err |-> "parse", code |-> 0, text |-> <<>>, value |-> JNone]
\* reject(new Error(`Python environment not found. ...`))
NotFoundError ==
    [kind |-> "rejected", err |-> "notfound", code |-> 0, text |-> <<>>, value |-> JNone]

\* { rawOutput: outputData, rawError: errorData }
RawResult(out, err) == JObj(<< <<rawOutputKey, JStr(out)>>, <<rawErrorKey, JStr(err)>> >>)

(***************************************************************************)
(* Faulty variants of the 'close' callback and of the buffer updates.      *)
(***************************************************************************)
\* the structured-or-fallback part of the callback
zeroExitSettles(out, err) ==
    LET startIndex == indexOf(out, startMarker)
        endIndex == indexOf(out, endMarker)
    IN  IF startIndex # -1 /\ endIndex # -1
        THEN LET result == JSONParse(trim(substring(out, startIndex + Len(startMarker), endIndex)))
             IN  IF result.ok THEN <<Resolved(result.v)>> ELSE <<ParseError>>
        ELSE <<Resolved(RawResult(out, err))>>

\* the `return` after reject is missing: a failed run is rejected and then decoded
closeSettlesNoReturn(code, out, err) ==
    (IF code # 0 THEN <<ExitError(code, err)>> ELSE <<>>) \o zeroExitSettles(out, err)

\* the exit code is looked at only when no payload could be decoded
closeSettlesPayloadFirst(code, out, err) ==
    LET cs == zeroExitSettles(out, err)
    IN  IF code # 0 /\ (cs[1].kind = "rejected" \/ indexOf(out, startMarker) = -1
                        \/ indexOf(out, endMarker) = -1)
        THEN <<ExitError(code, err)>>
        ELSE cs

\* a payload that does not parse falls back to the raw result
closeSettlesLenient(code, out, err) ==
    IF code # 0 THEN <<ExitError(code, err)>>
    ELSE IF zeroExitSettles(out, err) = <<ParseError>>
         THEN <<Resolved(RawResult(out, err))>>
         ELSE zeroExitSettles(out, err)

\* the payload is cut from the start of the start sentinel, not from its end
closeSettlesNoSkip(code, out, err) ==
    IF code # 0 THEN <<ExitError(code, err)>>
    ELSE LET startIndex == indexOf(out, startMarker)
             endIndex == indexOf(out, endMarker)
         IN  IF startIndex # -1 /\ endIndex # -1
             THEN LET result == JSONParse(trim(substring(out, startIndex, endIndex)))
                  IN  IF result.ok THEN <<Resolved(result.v)>> ELSE <<ParseError>>
             ELSE <<Resolved(RawResult(out, err))>>

\* outputData = str: the buffer is overwritten, not appended to
overwriteOutput(out, str) == str

(***************************************************************************)
(* The 'close' callback: the calls of resolve and reject it makes, in      *)
(* order, for an exit code and the two accumulated buffers.                *)
(***************************************************************************)
closeSettles(code, out, err) ==
    IF code # 0 THEN <<ExitError(code, err)>>
    ELSE LET startIndex == indexOf(out, startMarker)
             endIndex == indexOf(out, endMarker)
         IN  IF startIndex # -1 /\ endIndex # -1
             THEN LET jsonStr == trim(substring(out, startIndex + Len(startMarker), endIndex))
                      result == JSONParse(jsonStr)
                  IN  IF result.ok THEN <<Resolved(result.v)>> ELSE <<ParseError>>
             ELSE <<Resolved(RawResult(out, err))>>

\* a promise after the calls cs of resolve/reject: the first call settles it
Settle(p, cs) == IF p.kind = "pending" /\ Len(cs) > 0 THEN cs[1] ELSE p

(***************************************************************************)
(* The stdout 'data' callback: the events one chunk sends to the renderer. *)
(***************************************************************************)
ProgressEvent(n) == [ch |-> "backend-progress", p |-> n, data |-> JNone]
PartialEvent(v) == [ch |-> "backend-partial-result", p |-> 0, data |-> v]

\* the body of lines.forEach for one line
lineEvents(line) ==
    LET pm == progressMatch(line)
        qm == partialMatch(line)
        pData == JSONParse(trim(qm.group))
    IN  (IF pm.found THEN <<ProgressEvent(parseInt(pm.group))>> ELSE <<>>)
        \o (IF qm.found /\ pData.ok THEN <<PartialEvent(pData.v)>> ELSE <<>>)

\* faulty variant: without the try/catch the first corrupt partial line throws
\* out of the callback and the rest of the chunk is not looked at
RECURSIVE linesEventsAbort(_)
linesEventsAbort(lines) ==
    IF Len(lines) = 0 THEN <<>>
    ELSE IF partialMatch(Head(lines)).found
            /\ ~JSONParse(trim(partialMatch(Head(lines)).group)).ok
         THEN <<>>
         ELSE lineEvents(Head(lines)) \o linesEventsAbort(Tail(lines))

\* faulty variant: the lines of a chunk are handled last to first
RECURSIVE linesEventsReversed(_)
linesEventsReversed(lines) ==
    IF Len(lines) = 0 THEN <<>>
    ELSE linesEventsReversed(Tail(lines)) \o lineEvents(Head(lines))

RECURSIVE linesEvents(_)
linesEvents(lines) ==
    IF Len(lines) = 0 THEN <<>> ELSE lineEvents(Head(lines)) \o linesEvents(Tail(lines))

\* str.split('\n').forEach(...)
chunkEvents(str) == linesEvents(split(str))

\* outputData += str
appendOutput(out, str) == out \o str
\* errorData += str
appendError(err, str) == err \o str

(***************************************************************************)
(* What the worker may write.                                              *)
(***************************************************************************)
\* {"k":1}
objK1 == JObj(<< <<(<<"k">>), JNum(1)>> >>)
\* {"rawOutput":"","rawError":""}
objRawEmpty == RawResult(<<>>, <<>>)
\* "__JSON_END__", a JSON string value
strEnd == JStr(endMarker)

\* "[PROGRESS] 5", a line not yet ended
ProgressHead == progressTag \o <<" ", "5">>
\* "5\n"
DigitTail == <<"5", "\n">>
\* "[PROGRESS] 5\n"
ProgressLine == ProgressHead \o <<"\n">>
\* "[PARTIAL] {"k":1}\n"
PartialLine == partialTag \o <<" ">> \o Serialize(objK1) \o <<"\n">>
\* "[PARTIAL] {\n", a corrupt partial result
PartialCorrupt == partialTag \o <<" ", "{", "\n">>
\* "__JSON_START__{"k":1}"
TerminalHead == startMarker \o Serialize(objK1)
\* "__JSON_END__\n"
TerminalTail == endMarker \o <<"\n">>
\* "__JSON_START__{"k":1}__JSON_END__\n"
TerminalFull == TerminalHead \o TerminalTail
\* "__JSON_START__"__JSON_END__"", the payload being the string "__JSON_END__"
TerminalStrEnd == startMarker \o Serialize(strEnd)
\* "__JSON_START__{"rawOutput":"","rawError":""}__JSON_END__\n"
TerminalRawEmpty == startMarker \o Serialize(objRawEmpty) \o TerminalTail

\* "[PARTIAL] 7\n"
PartialLine7 == partialTag \o <<" ">> \o Serialize(JNum(7)) \o <<"\n">>
\* four lines in one chunk: a progress line, then a corrupt partial line between
\* two valid ones
MixedLines == ProgressLine \o PartialLine \o PartialCorrupt \o PartialLine7

\* stdout chunks of a worker in Spec: a progress line and a terminal payload
Chunks == {ProgressLine \o TerminalFull}
\* stdout chunks of the worker in CodecSpec
CodecChunks == {ProgressHead, DigitTail, PartialLine, PartialCorrupt, TerminalFull,
                TerminalHead, TerminalTail, TerminalStrEnd, TerminalRawEmpty}
\* stdout chunks of the worker in LineSpec: protocol lines, whole, in pieces and
\* several at once, and a terminal payload
LineChunks == {ProgressHead, DigitTail, PartialLine, PartialCorrupt, PartialLine7,
               MixedLines, TerminalFull}
\* "[PARTIAL] "[PROGRESS] 5"\n", a partial result that is a text naming a progress
PartialNamesProgress == partialTag \o <<" ">> \o Serialize(JStr(ProgressHead)) \o <<"\n">>
\* "x[PROGRESS] 5\n", a line of other text that holds a progress marker
TextNamesProgress == <<"x">> \o ProgressLine
\* stdout chunks of the worker in ShapeSpec: whole lines
ShapeChunks == {ProgressLine, PartialLine, PartialNamesProgress, TextNamesProgress}
\* chunkEvents of every chunk a modelled worker writes, evaluated once
eventsOf == [str \in Chunks \cup CodecChunks \cup LineChunks \cup ShapeChunks |->
                chunkEvents(str)]
\* stderr chunks: "boom"
ErrChunks == {<<"b", "o", "o", "m">>}
\* stdout chunks of the worker in MixSpec, and its stderr chunks: text that
\* would be protocol lines and sentinels on stdout
MixChunks == {PartialLine, TerminalHead, TerminalFull}
MixErrChunks == {ProgressLine, PartialLine, TerminalTail, TerminalFull}
\* exit codes of a worker that ends by itself
ExitCodes == {0, 1}

(***************************************************************************)
(* Paths (POSIX form, as text) and what run-backend resolves.              *)
(***************************************************************************)
\* the segments of a path between its separators
RECURSIVE segments(_)
segments(p) ==
    LET i == indexOf(p, <<"/">>)
    IN  IF i = -1 THEN <<p>>
        ELSE <<SubSeq(p, 1, i)>> \o segments(SubSeq(p, i + 2, Len(p)))

\* the segments that remain once "", "." and ".." are resolved; acc is the path
\* walked so far and a ".." above the start of a relative path is kept
RECURSIVE resolveSegments(_, _, _)
resolveSegments(segs, acc, absolute) ==
    IF Len(segs) = 0 THEN acc
    ELSE LET g == Head(segs)
         IN  IF g = <<>> \/ g = <<".">> THEN resolveSegments(Tail(segs), acc, absolute)
             ELSE IF g = <<".", ".">>
                  THEN IF Len(acc) > 0 /\ acc[Len(acc)] # <<".", ".">>
                       THEN resolveSegments(Tail(segs), SubSeq(acc, 1, Len(acc) - 1), absolute)
                       ELSE IF absolute THEN resolveSegments(Tail(segs), acc, absolute)
                       ELSE resolveSegments(Tail(segs), Append(acc, g), absolute)
             ELSE resolveSegments(Tail(segs), Append(acc, g), absolute)

RECURSIVE joinSegments(_)
joinSegments(segs) ==
    IF Len(segs) = 0 THEN <<>>
    ELSE IF Len(segs) = 1 THEN Head(segs)
    ELSE Head(segs) \o <<"/">> \o joinSegments(Tail(segs))

\* path.normalize: a trailing separator is kept, an empty result is "."
normalize(p) ==
    IF Len(p) = 0 THEN <<".">>
    ELSE LET absolute == p[1] = "/"
             body == joinSegments(resolveSegments(segments(p), <<>>, absolute))
             trailing == p[Len(p)] = "/"
         IN  IF Len(body) = 0 THEN (IF absolute THEN <<"/">>
                                    ELSE IF trailing THEN <<".", "/">> ELSE <<".">>)
             ELSE (IF absolute THEN <<"/">> ELSE <<>>) \o body
                  \o (IF trailing THEN <<"/">> ELSE <<>>)

\* p without its trailing separators
RECURSIVE stripTrailing(_)
stripTrailing(p) ==
    IF Len(p) > 1 /\ p[Len(p)] = "/" THEN stripTrailing(SubSeq(p, 1, Len(p) - 1)) ELSE p

\* the index (from 0) of the last separator of p, -1 without one
lastSeparator(p) ==
    LET S == {i \in 1..Len(p) : p[i] = "/"}
    IN  IF S = {} THEN -1 ELSE (CHOOSE i \in S : \A k \in S : k <= i) - 1

\* path.dirname
dirname(p) ==
    LET q == stripTrailing(p)
        i == lastSeparator(q)
    IN  IF i = -1 THEN <<".">>
        ELSE IF i = 0 THEN <<"/">>
        ELSE stripTrailing(SubSeq(q, 1, i))

\* path.basename
basename(p) ==
    LET q == stripTrailing(p)
    IN  IF q = <<"/">> THEN <<>> ELSE SubSeq(q, lastSeparator(q) + 2, Len(q))

\* path.join(p, rel), and path.resolve(p, rel) of an absolute p
join(p, rel) == stripTrailing(normalize(p \o <<"/">> \o rel))

\* process.resourcesPath of the installed application: "/vs/resources"
resourcesPath == <<"/", "v", "s", "/", "r", "e", "s", "o", "u", "r", "c", "e", "s">>
\* process.env.APP_ROOT of the development tree: "/repo/ui"
APP_ROOT == <<"/", "r", "e", "p", "o", "/", "u", "i">>
\* the folder that holds the .exe
appRoot == dirname(resourcesPath)

bundledPythonExe == join(join(resourcesPath, <<"p", "y", "t", "h", "o", "n">>), <<"p", "y", "t", "h", "o", "n", ".", "e", "x", "e">>)
externalPythonExe == join(join(appRoot, <<"p", "y", "t", "h", "o", "n">>), <<"p", "y", "t", "h", "o", "n", ".", "e", "x", "e">>)
defaultModelsDir == join(dirname(resourcesPath), <<"m", "o", "d", "e", "l", "s", "/", "i", "n", "d", "e", "x", "-", "t", "t", "s", "/", "h", "u", "b">>)
externalModelsDir == join(appRoot, <<"m", "o", "d", "e", "l", "s", "/", "i", "n", "d", "e", "x", "-", "t", "t", "s", "/", "h", "u", "b">>)
scriptPath == join(resourcesPath, <<"b", "a", "c", "k", "e", "n", "d", "/", "m", "a", "i", "n", ".", "p", "y">>)
pythonScript == join(APP_ROOT, <<".", ".", "/", "b", "a", "c", "k", "e", "n", "d", "/", "m", "a", "i", "n", ".", "p", "y">>)
projectRoot == join(APP_ROOT, <<".", ".">>)
devModelsDir == join(projectRoot, <<"m", "o", "d", "e", "l", "s", "/", "i", "n", "d", "e", "x", "-", "t", "t", "s", "/", "h", "u", "b">>)
\* the command 'python', found through PATH
pythonCommand == <<"p", "y", "t", "h", "o", "n">>

\* fs.existsSync(path) in the file system fs, a set of paths
existsSync(fs, path) == path \in fs

\* faulty variant: the external interpreter is preferred to the bundled one
pythonExeExternalFirst(fs) ==
    IF existsSync(fs, externalPythonExe) THEN externalPythonExe ELSE bundledPythonExe
\* pythonExe after the bundled-then-external lookup of packaged mode
pythonExe(fs) ==
    IF ~existsSync(fs, bundledPythonExe) THEN externalPythonExe ELSE bundledPythonExe
\* modelsDir after the lookup of packaged mode
modelsDir(fs) ==
    IF ~existsSync(fs, defaultModelsDir) THEN externalModelsDir ELSE defaultModelsDir

jsonFlag == <<"-", "-", "j", "s", "o", "n">>
modelDirFlag == <<"-", "-", "m", "o", "d", "e", "l", "_", "d", "i", "r">>
\* faulty variant: the request's arguments are put before the fixed flags
argvArgsFirst(script, models, args) ==
    <<script>> \o args \o <<jsonFlag, modelDirFlag, models>>
\* [script, '--json', '--model_dir', modelsDir, ...args]
argv(script, models, args) == <<script, jsonFlag, modelDirFlag, models>> \o args

NoSpawn == [file |-> <<>>, args |-> <<>>]
\* the call spawn(file, args) run-backend makes
spawnOf(packaged, fs, args) ==
    IF packaged
    THEN [file |-> pythonExe(fs), args |-> argv(scriptPath, modelsDir(fs), args)]
    ELSE [file |-> pythonCommand, args |-> argv(pythonScript, devModelsDir, args)]

\* the file systems a request may find
FileSystems == SUBSET {bundledPythonExe, externalPythonExe, defaultModelsDir, pythonCommand}
\* everything in place / nothing in place
Installed == {bundledPythonExe, externalPythonExe, defaultModelsDir, pythonCommand}
Missing == {}
\* the file systems of the requests that may find no interpreter
KillFileSystems == {Installed, Missing}
\* the argument lists of the requests: none, "--action dub", "dub --action"
Requests == {<<>>, <<<<"-", "-", "a", "c", "t", "i", "o", "n">>, <<"d", "u", "b">>>>, <<<<"d", "u", "b">>, <<"-", "-", "a", "c", "t", "i", "o", "n">>>>}

(***************************************************************************)
(* cache-video: the paths it computes.                                    *)
(***************************************************************************)
MaxCacheCalls == 2

\* String.prototype.startsWith
startsWith(s, prefix) == Len(prefix) <= Len(s) /\ SubSeq(s, 1, Len(prefix)) = prefix

\* the directory that holds .cache, by mode of deployment
cacheProjectRoot(packaged) ==
    IF packaged THEN dirname(resourcesPath) ELSE join(APP_ROOT, <<".", ".">>)
cacheDir(packaged) == join(cacheProjectRoot(packaged), <<".", "c", "a", "c", "h", "e">>)

\* the source files of the model
VideoA == <<"/", "v", "i", "d", "e", "o", "s", "/", "a", ".", "m", "p", "4">>
VideoADot == <<"/", "v", "i", "d", "e", "o", "s", "/", ".", "/", "a", ".", "m", "p", "4">>
OtherA == <<"/", "o", "t", "h", "e", "r", "/", "a", ".", "m", "p", "4">>
VideoB == <<"/", "v", "i", "d", "e", "o", "s", "/", "b", ".", "m", "p", "4">>
\* VideoA followed by "/.": the same normalized path, but no path of a file
VideoAInDot == <<"/", "v", "i", "d", "e", "o", "s", "/", "a", ".", "m", "p", "4", "/", ".">>

\* the first twelve hex digits of the MD5 digest of a normalized path, for the
\* paths of the model (the digests are those crypto computes)
hash12(normalizedInput) ==
    CASE normalizedInput = VideoA -> <<"5", "0", "8", "d", "8", "f", "c", "3", "a", "d", "b", "e">>
      [] normalizedInput = OtherA -> <<"e", "3", "5", "d", "3", "a", "8", "4", "8", "a", "c", "e">>
      [] normalizedInput = VideoB -> <<"6", "1", "a", "c", "c", "e", "d", "5", "9", "e", "7", "3">>
      [] normalizedInput = <<"/", "r", "e", "p", "o", "/", ".", "c", "a", "c", "h", "e", "/", "5", "0", "8", "d", "8", "f", "c", "3", "a", "d", "b", "e", "_", "a", ".", "m", "p", "4">> ->
             <<"8", "d", "1", "6", "e", "e", "6", "4", "d", "6", "9", "c">>
      [] normalizedInput = <<"/", "v", "s", "/", ".", "c", "a", "c", "h", "e", "/", "5", "0", "8", "d", "8", "f", "c", "3", "a", "d", "b", "e", "_", "a", ".", "m", "p", "4">> ->
             <<"5", "d", "f", "d", "f", "f", "5", "f", "d", "3", "4", "4">>

\* `${hash.substring(0, 12)}_${basename}`
safeBasename(filePath) ==
    substring(hash12(normalize(filePath)), 0, 12) \o <<"_">> \o basename(filePath)
\* faulty variant: the name tells a path given in normalized form from another
destPathMarked(packaged, filePath) ==
    join(cacheDir(packaged),
         (IF filePath = normalize(filePath) THEN <<>> ELSE <<"r">>) \o safeBasename(filePath))
destPath(packaged, filePath) == join(cacheDir(packaged), safeBasename(filePath))

\* normalizedInput.startsWith(normalizedCache)
\* faulty variant: only the cache directory itself counts as inside
inCacheExact(packaged, filePath) == normalize(filePath) = normalize(cacheDir(packaged))
inCache(packaged, filePath) ==
    startsWith(normalize(filePath), normalize(cacheDir(packaged)))

\* a file of the cache, given as the source of a request
CachedA(packaged) == destPath(packaged, VideoA)
\* the source paths of the requests
OutsideSources == {VideoA, VideoADot, VideoAInDot, OtherA, VideoB}
CacheSources(packaged) == OutsideSources \cup {CachedA(packaged)}
AllSources == CacheSources(TRUE) \cup CacheSources(FALSE)
\* the source files that exist outside the cache (VideoB does not)
SourceFiles == {VideoA, OtherA}
\* the files cache-video may write
Destinations == {destPath(pk, f) : pk \in BOOLEAN, f \in AllSources}

\* what the handler computes for each source of the model, computed once
normalizedInputOf == [f \in AllSources |-> normalize(f)]
namesFileOf == [f \in AllSources |-> basename(f) \notin {<<>>, <<".">>, <<".", ".">>}]
inCacheOf == [pk \in BOOLEAN |-> [f \in AllSources |-> inCache(pk, f)]]
destPathOf == [pk \in BOOLEAN |->
                 [f \in AllSources |-> IF inCache(pk, f) THEN <<>> ELSE destPath(pk, f)]]

(***************************************************************************)
(* fix-python-env and check-python-env: what they resolve and what their   *)
(* callbacks report.                                                       *)
(***************************************************************************)
\* String.prototype.lastIndexOf(pat), -1 when absent
lastIndexOf(s, pat) ==
    LET hit == {i \in 0..(Len(s) - Len(pat)) : StartsAt(s, pat, i)}
    IN  IF hit = {} THEN -1 ELSE CHOOSE i \in hit : \A k \in hit : k <= i

\* `${code}` of an exit code
codeText(code) == IF code < 0 THEN <<"-">> \o Decimal(0 - code) ELSE Decimal(code)

\* the projectRoot of both handlers
depProjectRoot(packaged) ==
    IF packaged THEN dirname(resourcesPath) ELSE join(APP_ROOT, <<".", ".">>)
\* the interpreter of the development tree, if it has its own
localPythonExe == join(join(depProjectRoot(FALSE), <<"p", "y", "t", "h", "o", "n">>), <<"p", "y", "t", "h", "o", "n", ".", "e", "x", "e">>)
rootRequirements(packaged) == join(depProjectRoot(packaged), <<"r", "e", "q", "u", "i", "r", "e", "m", "e", "n", "t", "s", ".", "t", "x", "t">>)
internalReq == join(resourcesPath, <<"b", "a", "c", "k", "e", "n", "d", "/", "r", "e", "q", "u", "i", "r", "e", "m", "e", "n", "t", "s", ".", "t", "x", "t">>)
checkScriptPath(packaged) ==
    join(IF packaged THEN resourcesPath ELSE depProjectRoot(FALSE),
         <<"b", "a", "c", "k", "e", "n", "d", "/", "c", "h", "e", "c", "k", "_", "r", "e", "q", "u", "i", "r", "e", "m", "e", "n", "t", "s", ".", "p", "y">>)

\* pythonExe as both handlers choose it
depPythonExe(packaged, fs) ==
    IF packaged
    THEN (IF ~existsSync(fs, bundledPythonExe)
          THEN join(join(depProjectRoot(TRUE), <<"p", "y", "t", "h", "o", "n">>), <<"p", "y", "t", "h", "o", "n", ".", "e", "x", "e">>)
          ELSE bundledPythonExe)
    ELSE (IF existsSync(fs, localPythonExe) THEN localPythonExe ELSE pythonCommand)
\* requirementsPath as both handlers choose it
depRequirements(packaged, fs) ==
    IF packaged /\ ~existsSync(fs, rootRequirements(TRUE)) /\ existsSync(fs, internalReq)
    THEN internalReq
    ELSE rootRequirements(packaged)

\* the values the promises are resolved with; has = the members besides success
NoResult == [success |-> FALSE, has |-> {}, output |-> <<>>, error |-> <<>>, missing |-> JNone]
Repaired(output) ==
    [success |-> TRUE, has |-> {"output"}, output |-> output, error |-> <<>>,
     missing |-> JNone]
Failed(error) ==
    [success |-> FALSE, has |-> {"error"}, output |-> <<>>, error |-> error,
     missing |-> JNone]
Checked(missing) ==
    [success |-> TRUE, has |-> {"missing"}, output |-> <<>>, error |-> <<>>,
     missing |-> missing]

\* the messages of the failures (those of fix-python-env that are written in
\* Chinese are given by an ASCII text, the directory following as in the code)
fixNoPython(packaged) == <<"[", "n", "o", " ", "p", "y", "t", "h", "o", "n", "]", " ">> \o depProjectRoot(packaged)
fixNoRequirements(packaged) == <<"[", "n", "o", " ", "r", "e", "q", "u", "i", "r", "e", "m", "e", "n", "t", "s", ".", "t", "x", "t", "]", " ">> \o depProjectRoot(packaged)
checkNoPython == <<"P", "y", "t", "h", "o", "n", " ", "i", "n", "t", "e", "r", "p", "r", "e", "t", "e", "r", " ", "n", "o", "t", " ", "f", "o", "u", "n", "d">>
checkNoRequirements == <<"r", "e", "q", "u", "i", "r", "e", "m", "e", "n", "t", "s", ".", "t", "x", "t", " ", "n", "o", "t", " ", "f", "o", "u", "n", "d">>
checkNoScript == <<"c", "h", "e", "c", "k", "_", "r", "e", "q", "u", "i", "r", "e", "m", "e", "n", "t", "s", ".", "p", "y", " ", "n", "o", "t", " ", "f", "o", "u", "n", "d">>
checkNonZero == <<"D", "e", "p", "e", "n", "d", "e", "n", "c", "y", " ", "c", "h", "e", "c", "k", " ", "f", "a", "i", "l", "e", "d", " ", "(", "n", "o", "n", "-", "z", "e", "r", "o", " ", "e", "x", "i", "t", ")">>
\* err.message of a spawn that failed, and e.message of JSON.parse
spawnMessage(file) == <<"s", "p", "a", "w", "n", " ">> \o file \o <<" ", "E", "N", "O", "E", "N", "T">>
syntaxMessage == <<"U", "n", "e", "x", "p", "e", "c", "t", "e", "d", " ", "t", "o", "k", "e", "n">>

\* what the executor resolves with before any spawn, <<>> if it spawns
depEarly(kind, packaged, fs) ==
    LET exe == depPythonExe(packaged, fs)
    IN  IF ~existsSync(fs, exe) /\ exe # pythonCommand
        THEN <<Failed(IF kind = "fix" THEN fixNoPython(packaged) ELSE checkNoPython)>>
        ELSE IF ~existsSync(fs, depRequirements(packaged, fs))
        THEN <<Failed(IF kind = "fix" THEN fixNoRequirements(packaged)
                      ELSE checkNoRequirements)>>
        ELSE IF kind = "check" /\ ~existsSync(fs, checkScriptPath(packaged))
        THEN <<Failed(checkNoScript)>>
        ELSE <<>>

\* the spawn call of the handler
depSpawn(kind, packaged, fs) ==
    [file |-> depPythonExe(packaged, fs),
     args |-> IF kind = "fix"
              THEN <<<<"-", "m">>, <<"p", "i", "p">>, <<"i", "n", "s", "t", "a", "l", "l">>, <<"-", "r">>, depRequirements(packaged, fs)>>
              ELSE <<checkScriptPath(packaged), depRequirements(packaged, fs), jsonFlag>>]

\* faulty variant: the failure of the installer carries both streams
fixCloseCombined(code, output, errorOut) ==
    IF code = 0 THEN <<Repaired(output)>>
    ELSE <<Failed(<<"P", "i", "p", " ", "i", "n", "s", "t", "a", "l", "l", " ", "f", "a", "i", "l", "e", "d", " ", "(", "C", "o", "d", "e", " ">> \o codeText(code) \o <<")", ".", " ", "\n", "E", "r", "r", "o", "r", ":", " ">>
                  \o output \o errorOut)>>
\* installProcess.on('close'): the calls of resolve
fixClose(code, output, errorOut) ==
    IF code = 0 THEN <<Repaired(output)>>
    ELSE <<Failed(<<"P", "i", "p", " ", "i", "n", "s", "t", "a", "l", "l", " ", "f", "a", "i", "l", "e", "d", " ", "(", "C", "o", "d", "e", " ">> \o codeText(code) \o <<")", ".", " ", "\n", "E", "r", "r", "o", "r", ":", " ">>
                  \o errorOut)>>

\* result.missing of a parsed report: the last member of that name
getMissing(v) ==
    IF v.t # "obj" THEN JNone
    ELSE LET hit == {i \in 1..Len(v.kv) : v.kv[i][1] = <<"m", "i", "s", "s", "i", "n", "g">>}
         IN  IF hit = {} THEN JNone
             ELSE v.kv[CHOOSE i \in hit : \A k \in hit : k <= i][2]
\* x || []
orEmptyList(x) ==
    IF x.t = "none" \/ (x.t = "num" /\ x.n = 0) \/ (x.t = "str" /\ x.s = <<>>)
    THEN JArr(<<>>) ELSE x

\* faulty variant: a report is looked for only when the exit code is zero
checkCloseCodeFirst(code, output) ==
    IF code # 0 THEN <<Failed(checkNonZero)>>
    ELSE LET jsonStart == indexOf(output, <<"{">>)
             jsonEnd == lastIndexOf(output, <<"}">>)
         IN  IF jsonStart # -1 /\ jsonEnd # -1
             THEN LET r == JSONParse(substring(output, jsonStart, jsonEnd + 1))
                  IN  IF r.ok THEN <<Checked(orEmptyList(getMissing(r.v)))>>
                      ELSE <<Failed(<<"P", "a", "r", "s", "e", " ", "e", "r", "r", "o", "r", ":", " ">> \o syntaxMessage)>>
             ELSE <<Checked(JArr(<<>>))>>
\* faulty variant: without a report the check succeeds whatever the exit code
checkCloseLenient(code, output) ==
    LET jsonStart == indexOf(output, <<"{">>)
        jsonEnd == lastIndexOf(output, <<"}">>)
    IN  IF jsonStart # -1 /\ jsonEnd # -1
        THEN LET r == JSONParse(substring(output, jsonStart, jsonEnd + 1))
             IN  IF r.ok THEN <<Checked(orEmptyList(getMissing(r.v)))>>
                 ELSE <<Failed(<<"P", "a", "r", "s", "e", " ", "e", "r", "r", "o", "r", ":", " ">> \o syntaxMessage)>>
        ELSE <<Checked(JArr(<<>>))>>
\* checkProcess.on('close'): the calls of resolve, in order
checkClose(code, output) ==
    LET jsonStart == indexOf(output, <<"{">>)
        jsonEnd == lastIndexOf(output, <<"}">>)
    IN  IF jsonStart # -1 /\ jsonEnd # -1
        THEN LET r == JSONParse(substring(output, jsonStart, jsonEnd + 1))
             IN  IF r.ok THEN <<Checked(orEmptyList(getMissing(r.v)))>>
                 ELSE <<Failed(<<"P", "a", "r", "s", "e", " ", "e", "r", "r", "o", "r", ":", " ">> \o syntaxMessage)>>
        ELSE (IF code = 0 /\ trim(output) = <<>> THEN <<Checked(JArr(<<>>))>> ELSE <<>>)
             \o (IF code # 0 THEN <<Failed(checkNonZero)>> ELSE <<Checked(JArr(<<>>))>>)

\* the 'close' and 'error' callbacks of a handler
depClose(kind, code, output, errorOut) ==
    IF kind = "fix" THEN fixClose(code, output, errorOut) ELSE checkClose(code, output)
depError(kind, file) ==
    IF kind = "fix" THEN <<Failed(<<"S", "p", "a", "w", "n", " ", "e", "r", "r", "o", "r", ":", " ">> \o spawnMessage(file))>>
    ELSE <<Failed(spawnMessage(file))>>

\* what the installer and the diagnostic script write
PipOut == <<"C", "o", "l", "l", "e", "c", "t", "i", "n", "g", " ", "t", "o", "r", "c", "h", "\n">>
PipErr == <<"E", "R", "R", "O", "R", ":", " ", "n", "o", " ", "m", "a", "t", "c", "h", "i", "n", "g", " ", "d", "i", "s", "t", "r", "i", "b", "u", "t", "i", "o", "n", "\n">>
ReportHead == <<"{", "\"", "m", "i", "s", "s", "i", "n", "g", "\"", ":">>
ReportTorch == <<"[", "\"", "t", "o", "r", "c", "h", "\"", "]", "}", "\n">>
ReportNone == <<"[", "]", "}", "\n">>
AllGood == <<"A", "l", "l", " ", "g", "o", "o", "d", "\n">>
Garbled == <<"{", "o", "o", "p", "s", "}">>
DepOutChunks(kind) ==
    IF kind = "fix" THEN {PipOut}
    ELSE {ReportHead, ReportTorch, ReportNone, AllGood, Garbled}
DepErrChunks == {PipErr}
\* the exit code 'close' reports for a spawn that failed (-ENOENT)
SpawnFailedCode == -2

\* no request of the two handlers was made yet
DepIdle ==
    [kind |-> "none", pc |-> "idle", files |-> {}, spawn |-> NoSpawn, output |-> <<>>,
     errorOut |-> <<>>, nOut |-> 0, nErr |-> 0, code |-> 0, result |-> NoResult,
     resolveCalls |-> 0]

\* the file systems of the requests: complete, and with one thing missing
DepComplete ==
    {bundledPythonExe, externalPythonExe, localPythonExe, pythonCommand, rootRequirements(TRUE),
     rootRequirements(FALSE), checkScriptPath(TRUE), checkScriptPath(FALSE)}
DepFileSystems ==
    {DepComplete,
     DepComplete \ {bundledPythonExe, localPythonExe},
     DepComplete \ {bundledPythonExe, externalPythonExe, localPythonExe, pythonCommand},
     DepComplete \ {rootRequirements(TRUE), rootRequirements(FALSE)},
     (DepComplete \ {rootRequirements(TRUE)}) \cup {internalReq},
     DepComplete \ {checkScriptPath(TRUE), checkScriptPath(FALSE)}}

\* what the executors compute for each request of the model, computed once
DepKinds == {"fix", "check"}
depEarlyOf == [kind \in DepKinds |-> [pk \in BOOLEAN |->
                 [fs \in DepFileSystems |-> depEarly(kind, pk, fs)]]]
depSpawnOf == [kind \in DepKinds |-> [pk \in BOOLEAN |->
                 [fs \in DepFileSystems |-> depSpawn(kind, pk, fs)]]]

(***************************************************************************)
(* Initial state: the application is ready and no job was requested.       *)
(***************************************************************************)
\* no run-backend request was made yet
BackendIdle ==
    /\ calls = 0
    /\ activeBackendProcess = 0
    /\ proc = [j \in Jobs |-> "none"]
    /\ exitCode = [j \in Jobs |-> 0]
    /\ outputData = [j \in Jobs |-> <<>>]
    /\ errorData = [j \in Jobs |-> <<>>]
    /\ promise = [j \in Jobs |-> Pending]
    /\ settleCalls = [j \in Jobs |-> 0]
    /\ sent = [j \in Jobs |-> <<>>]
    /\ stdoutRaw = [j \in Jobs |-> <<>>]
    /\ stderrRaw = [j \in Jobs |-> <<>>]
    /\ nData = [j \in Jobs |-> 0]
    /\ cuts = [j \in Jobs |-> {}]
    /\ nErrData = [j \in Jobs |-> 0]
    /\ killed = [j \in Jobs |-> "no"]
    /\ taskkill = {}
    /\ files = [j \in Jobs |-> {}]
    /\ spawnCall = [j \in Jobs |-> NoSpawn]
    /\ request = [j \in Jobs |-> <<>>]
    /\ child = [j \in Jobs |-> "none"]

(***************************************************************************)
(* The launcher script start.bat and the Index-TTS settings panel: their   *)
(* values and pure parts.                                                  *)
(***************************************************************************)
\* the exit codes a command started by the launcher may end with: success, failure
\* and a negative code (a process ended by an exception)
BatCodes == {0, 1, -1}
\* the exit codes of a command whose exit code the script does not look at
BatUntested == {0, 1}

\* `if errorlevel n` of cmd.exe: true when the exit code is n or greater
ifErrorlevel(level, n) == level >= n

\* the paths the `if exist` tests of the launcher look at
PythonExe == "python\\python.exe"
PythonZip == "python.zip"
NodeExe == "node_env\\node-v18.19.0-win-x64\\node.exe"
NodeZip == "node_env\\node.zip"
NodeModules == "ui\\node_modules"
BatPaths == {PythonExe, PythonZip, NodeExe, NodeZip, NodeModules}
\* the files that may exist when the launcher is started
BatFileSystems == SUBSET BatPaths
\* what the user may type at the prompt of line 14 (nothing, 1 or 2)
BatChoices == {"", "1", "2"}

\* the launcher before it is started.  ran is the list of the external commands
\* run so far, each with the line of the script and its exit code; echoed holds
\* the lines of the messages shown
BatOff ==
    [pc |-> "off", errorlevel |-> 0, RETRY_COUNT |-> "", choice |-> "",
     fs |-> {}, ran |-> <<>>, echoed |-> {}]

\* the launcher after the command of line `line` ended with `code`
batRan(b, line, code) ==
    [b EXCEPT !.errorlevel = code, !.ran = Append(@, [line |-> line, code |-> code])]

\* the files after an extraction or installation that makes `path`, when it succeeded
batMade(b, path, code) == [b EXCEPT !.fs = IF code = 0 THEN @ \cup {path} ELSE @]

\* the localStorage keys of the Index-TTS parameters, in the order of the panel's
\* states refAudioPath, temperature, topP, repetitionPenalty, cfgScale, numBeams,
\* topK, lengthPenalty, maxMelTokens
RefKey == "tts_ref_audio_path"
FloatKeys == {"tts_temperature", "tts_top_p", "tts_repetition_penalty",
              "tts_cfg_scale", "tts_length_penalty"}
IntKeys == {"tts_num_beams", "tts_top_k", "tts_max_mel_tokens"}
IndexKeys == {RefKey} \cup FloatKeys \cup IntKeys

\* The initial values of useState.  A number is held as its count of
\* hundredths (0.7 is 70, 2048 is 204800), the reference path as a string of
\* characters.
DefaultParams ==
    [k \in IndexKeys |->
        CASE k = RefKey -> <<>>
          [] k = "tts_temperature" -> 70
          [] k = "tts_top_p" -> 80
          [] k = "tts_repetition_penalty" -> 100
          [] k = "tts_cfg_scale" -> 70
          [] k = "tts_num_beams" -> 100
          [] k = "tts_top_k" -> 500
          [] k = "tts_length_penalty" -> 100
          [] k = "tts_max_mel_tokens" -> 204800]

\* a reference audio file the user may pick
RefWav == <<"r", ".", "w", "a", "v">>

\* the values the user may give a parameter: the default and one other value
\* of the control's range
ParamChoices ==
    [k \in IndexKeys |->
        CASE k = RefKey -> {<<>>, RefWav}
          [] k = "tts_temperature" -> {70, 120}
          [] k = "tts_top_p" -> {80, 95}
          [] k = "tts_repetition_penalty" -> {100, 150}
          [] k = "tts_cfg_scale" -> {70, 0}
          [] k = "tts_num_beams" -> {100, 300}
          [] k = "tts_top_k" -> {500, 0}
          [] k = "tts_length_penalty" -> {100, 120}
          [] k = "tts_max_mel_tokens" -> {204800, 102400}]

\* Number.prototype.toString() of a number with at most two decimals
numberToString(h) ==
    LET int == h \div 100
        frac == h % 100
    IN  IF frac = 0 THEN Decimal(int)
        ELSE IF frac % 10 = 0 THEN Decimal(int) \o <<".", DigitChar(frac \div 10)>>
        ELSE Decimal(int) \o <<".", DigitChar(frac \div 10), DigitChar(frac % 10)>>

\* NaN, the result of parseFloat and parseInt on a string without leading digits
NaN == -1

\* parseInt(str) of a string that has no sign: the leading digits
parseIntPrefix(str) ==
    LET e == RunEnd(str, 0, Digits)
    IN  IF e = 0 THEN NaN ELSE 100 * parseInt(SubSeq(str, 1, e))

\* parseFloat(str) of a string that has no sign and no exponent: the leading
\* digits and up to two decimals after a point
parseFloat(str) ==
    LET e == RunEnd(str, 0, Digits)
        f == IF e < Len(str) /\ str[e + 1] = "." THEN RunEnd(str, e + 1, Digits) ELSE e
        decimals == IF f > e + 1 THEN SubSeq(str, e + 2, Min(f, e + 3)) ELSE <<>>
        scaled == IF Len(decimals) = 1 THEN 10 * parseInt(decimals) ELSE parseInt(decimals)
    IN  IF e = 0 /\ Len(decimals) = 0 THEN NaN
        ELSE 100 * parseInt(SubSeq(str, 1, e)) + scaled

\* localStorage.getItem: null for a key that is not present
null == <<"null">>
getItem(store, key) == IF key \in DOMAIN store THEN store[key] ELSE null
\* localStorage.setItem
setItem(store, key, str) ==
    [k \in DOMAIN store \cup {key} |-> IF k = key THEN str ELSE store[k]]
\* localStorage.removeItem
removeItem(store, key) == [k \in DOMAIN store \ {key} |-> store[k]]
\* a storage without keys
EmptyStorage == [k \in {} |-> <<>>]

\* the truth value JavaScript gives the result of getItem: null and the empty
\* string are false
truthy(item) == item # null /\ item # <<>>

\* The effect that loads the Index-TTS configuration on mount: every key that
\* holds a non-empty string replaces the initial value of its state.
loadConfig(store) ==
    [k \in IndexKeys |->
        LET stored == getItem(store, k)
        IN  IF ~truthy(stored) THEN DefaultParams[k]
            ELSE IF k = RefKey THEN stored
            ELSE IF k \in FloatKeys THEN parseFloat(stored)
            ELSE parseIntPrefix(stored)]

\* the string handleSaveIndex stores for the state of key k
savedText(k, v) == IF k = RefKey THEN v ELSE numberToString(v)

\* handleSaveIndex: setItem for each of the nine keys
RECURSIVE saveAll(_, _, _)
saveAll(store, values, keys) ==
    IF keys = {} THEN store
    ELSE LET k == CHOOSE x \in keys : TRUE
         IN  saveAll(setItem(store, k, savedText(k, values[k])), values, keys \ {k})

\* the panel before it is mounted.  handler names the handler that ran last,
\* edits counts the changes the user made to parameters
PanelOff ==
    [mounted |-> FALSE, values |-> DefaultParams, isResetDialogOpen |-> FALSE,
     feedback |-> FALSE, edits |-> 0, handler |-> "none"]

\* nothing of the front end has run yet
FrontIdle ==
    /\ bat = BatOff
    /\ panel = PanelOff
    /\ localStorage = EmptyStorage

\* a first start: no .cache directory yet
Init ==
    /\ isPackaged \in BOOLEAN
    /\ platform \in {"win32", "linux"}
    /\ BackendIdle
    /\ cacheDirExists = FALSE
    /\ cacheFiles = [d \in Destinations |-> "absent"]
    /\ cacheCalls = <<>>
    /\ dep = DepIdle
    /\ FrontIdle

\* faulty variant: the streams of a worker still deliver after its 'close' event
Spawned(j) == proc[j] \in {"running", "exited", "closed"}

\* the worker of job j was spawned and its 'close' event was not yet handled
Alive(j) == proc[j] \in {"running", "exited"}

(***************************************************************************)
(* ipcMain.handle('run-backend'): the executor of the returned promise.    *)
(* In packaged mode fs.existsSync decides whether an interpreter is found  *)
(* (bundled or external); without one the promise is rejected and nothing  *)
(* is spawned or tracked.  Otherwise spawn is called and the child object  *)
(* is recorded as the tracked handle, whatever the handle held before.     *)
(* A spawn of a file that cannot be run gives a child without a process:   *)
(* its 'error' event has no listener, and neither 'close' nor a rejection  *)
(* follows.                                                                *)
(***************************************************************************)
RunBackend(limit, fss, reqs) ==
    /\ calls < limit
    /\ LET j == calls + 1
       IN  \E fs \in fss, args \in reqs :
              /\ calls' = j
              /\ files' = [files EXCEPT ![j] = fs]
              /\ request' = [request EXCEPT ![j] = args]
              /\ IF isPackaged /\ ~existsSync(fs, pythonExe(fs))
                 THEN /\ promise' = [promise EXCEPT ![j] = NotFoundError]
                      /\ settleCalls' = [settleCalls EXCEPT ![j] = 1]
                      /\ proc' = [proc EXCEPT ![j] = "nospawn"]
                      /\ UNCHANGED <<activeBackendProcess, spawnCall>>
                 ELSE /\ spawnCall' = [spawnCall EXCEPT ![j] = spawnOf(isPackaged, fs, args)]
                      /\ proc' = [proc EXCEPT ![j] =
                                     IF existsSync(fs, spawnOf(isPackaged, fs, args).file)
                                     THEN "running" ELSE "spawnerror"]
                      /\ activeBackendProcess' = j
                      /\ UNCHANGED <<promise, settleCalls>>
    /\ UNCHANGED <<isPackaged, platform, exitCode, outputData, errorData, sent,
                   stdoutRaw, stderrRaw, nData, cuts, nErrData, killed, taskkill, child>>
    /\ UNCHANGED <<cacheVars, depVars, batVars, panelVars>>

(***************************************************************************)
(* backendProcess.stdout.on('data'): the pipe delivers what the worker     *)
(* wrote, also after the worker ended, until 'close'.                      *)
(***************************************************************************)
StdoutData(j, str, max) ==
    /\ Alive(j)
    /\ nData[j] < max
    /\ nData' = [nData EXCEPT ![j] = @ + 1]
    /\ cuts' = [cuts EXCEPT ![j] = @ \cup {Len(stdoutRaw[j]) + Len(str)}]
    /\ sent' = [sent EXCEPT ![j] = @ \o eventsOf[str]]
    /\ outputData' = [outputData EXCEPT ![j] = appendOutput(@, str)]
    /\ stdoutRaw' = [stdoutRaw EXCEPT ![j] = @ \o str]
    /\ UNCHANGED <<isPackaged, platform, calls, activeBackendProcess, proc, exitCode,
                   errorData, promise, settleCalls, stderrRaw, nErrData, killed, taskkill,
                   files, spawnCall,
                   request, child>>
    /\ UNCHANGED <<cacheVars, depVars, batVars, panelVars>>

(***************************************************************************)
(* backendProcess.stderr.on('data')                                        *)
(***************************************************************************)
\* faulty variant: the text of stderr is appended to the stdout buffer too
StderrDataMerged(j, str) ==
    /\ Alive(j)
    /\ nErrData[j] < MaxErrData
    /\ nErrData' = [nErrData EXCEPT ![j] = @ + 1]
    /\ errorData' = [errorData EXCEPT ![j] = appendError(@, str)]
    /\ outputData' = [outputData EXCEPT ![j] = appendOutput(@, str)]
    /\ stderrRaw' = [stderrRaw EXCEPT ![j] = @ \o str]
    /\ UNCHANGED <<isPackaged, platform, calls, activeBackendProcess, proc, exitCode,
                   promise, settleCalls, sent, stdoutRaw, nData, cuts, killed,
                   taskkill, files, spawnCall,
                   request, child>>
    /\ UNCHANGED <<cacheVars, depVars, batVars, panelVars>>

StderrData(j, str) ==
    /\ Alive(j)
    /\ nErrData[j] < MaxErrData
    /\ nErrData' = [nErrData EXCEPT ![j] = @ + 1]
    /\ errorData' = [errorData EXCEPT ![j] = appendError(@, str)]
    /\ stderrRaw' = [stderrRaw EXCEPT ![j] = @ \o str]
    /\ UNCHANGED <<isPackaged, platform, calls, activeBackendProcess, proc, exitCode,
                   outputData, promise, settleCalls, sent, stdoutRaw, nData, cuts, killed,
                   taskkill, files, spawnCall,
                   request, child>>
    /\ UNCHANGED <<cacheVars, depVars, batVars, panelVars>>

(***************************************************************************)
(* The worker ends by itself with an exit code.                            *)
(***************************************************************************)
WorkerExit(j, code) ==
    /\ proc[j] = "running"
    /\ proc' = [proc EXCEPT ![j] = "exited"]
    /\ exitCode' = [exitCode EXCEPT ![j] = code]
    /\ UNCHANGED <<isPackaged, platform, calls, activeBackendProcess, outputData,
                   errorData, promise, settleCalls, sent, stdoutRaw, stderrRaw, nData, cuts,
                   nErrData, killed, taskkill, files, spawnCall,
                   request, child>>
    /\ UNCHANGED <<cacheVars, depVars, batVars, panelVars>>

(***************************************************************************)
(* backendProcess.on('close'): emitted once the worker has ended and its   *)
(* streams are closed.                                                     *)
(***************************************************************************)
\* faulty variant: 'close' clears the tracked handle whichever worker it holds
CloseClearsHandle(j) ==
    /\ proc[j] = "exited"
    /\ proc' = [proc EXCEPT ![j] = "closed"]
    /\ activeBackendProcess' = 0
    /\ LET cs == closeSettles(exitCode[j], outputData[j], errorData[j])
       IN  /\ promise' = [promise EXCEPT ![j] = Settle(@, cs)]
           /\ settleCalls' = [settleCalls EXCEPT ![j] = @ + Len(cs)]
    /\ UNCHANGED <<isPackaged, platform, calls, exitCode, outputData, errorData, sent,
                   stdoutRaw, stderrRaw, nData, cuts, nErrData, killed, taskkill, files,
                   spawnCall,
                   request, child>>
    /\ UNCHANGED <<cacheVars, depVars, batVars, panelVars>>

Close(j) ==
    /\ proc[j] = "exited"
    /\ proc' = [proc EXCEPT ![j] = "closed"]
    /\ activeBackendProcess' = IF activeBackendProcess = j THEN 0 ELSE activeBackendProcess
    /\ LET cs == closeSettles(exitCode[j], outputData[j], errorData[j])
       IN  /\ promise' = [promise EXCEPT ![j] = Settle(@, cs)]
           /\ settleCalls' = [settleCalls EXCEPT ![j] = @ + Len(cs)]
    /\ UNCHANGED <<isPackaged, platform, calls, exitCode, outputData, errorData, sent,
                   stdoutRaw, stderrRaw, nData, cuts, nErrData, killed, taskkill, files,
                   spawnCall,
                   request, child>>
    /\ UNCHANGED <<cacheVars, depVars, batVars, panelVars>>

(***************************************************************************)
(* ipcMain.handle('kill-backend').  With a tracked worker: on win32 a      *)
(* taskkill /T /F command is started for its pid, elsewhere SIGKILL is     *)
(* sent to it (without effect on a worker that has already ended); the     *)
(* tracked handle is cleared and true returned.  Without one: true.        *)
(* The await of the dynamic import resumes before any other callback runs. *)
(***************************************************************************)
\* the mark kill-backend leaves on job j
killMark(j) ==
    IF ~Alive(j) THEN killed[j]
    ELSE IF activeBackendProcess = j THEN "tracked"
    ELSE IF killed[j] = "no" THEN "untracked"
    ELSE killed[j]

\* faulty variant: the tracked handle is not cleared
KillBackendKeepsHandle ==
    /\ killed' = [j \in Jobs |-> killMark(j)]
    /\ IF activeBackendProcess # 0
       THEN IF platform = "win32"
            THEN /\ taskkill' = taskkill \cup {activeBackendProcess}
                 /\ UNCHANGED <<proc, exitCode>>
            ELSE /\ IF proc[activeBackendProcess] = "running"
                    THEN /\ proc' = [proc EXCEPT ![activeBackendProcess] = "exited"]
                         /\ exitCode' = [exitCode EXCEPT ![activeBackendProcess] = NullCode]
                    ELSE UNCHANGED <<proc, exitCode>>
                 /\ UNCHANGED taskkill
       ELSE UNCHANGED <<proc, exitCode, taskkill>>
    /\ UNCHANGED <<activeBackendProcess, isPackaged, platform, calls, outputData,
                   errorData, promise, settleCalls, sent, stdoutRaw, stderrRaw, nData, cuts,
                   nErrData, files, spawnCall, request, child>>
    /\ UNCHANGED <<cacheVars, depVars, batVars, panelVars>>

\* faulty variant: without a tracked worker the newest worker is terminated
KillBackendNewest ==
    /\ killed' = [j \in Jobs |-> killMark(j)]
    /\ IF activeBackendProcess # 0 \/ calls > 0
       THEN LET t == IF activeBackendProcess # 0 THEN activeBackendProcess ELSE calls
            IN  /\ IF platform = "win32"
                   THEN /\ taskkill' = taskkill \cup {t}
                        /\ UNCHANGED <<proc, exitCode>>
                   ELSE /\ IF proc[t] = "running"
                           THEN /\ proc' = [proc EXCEPT ![t] = "exited"]
                                /\ exitCode' = [exitCode EXCEPT ![t] = NullCode]
                           ELSE UNCHANGED <<proc, exitCode>>
                        /\ UNCHANGED taskkill
                /\ activeBackendProcess' = 0
       ELSE UNCHANGED <<activeBackendProcess, proc, exitCode, taskkill>>
    /\ UNCHANGED <<isPackaged, platform, calls, outputData, errorData, promise,
                   settleCalls, sent, stdoutRaw, stderrRaw, nData, cuts, nErrData, files,
                   spawnCall, request, child>>
    /\ UNCHANGED <<cacheVars, depVars, batVars, panelVars>>

KillBackend ==
    /\ killed' = [j \in Jobs |-> killMark(j)]
    /\ IF activeBackendProcess # 0
       THEN /\ IF platform = "win32"
               THEN /\ taskkill' = taskkill \cup {activeBackendProcess}
                    /\ UNCHANGED <<proc, exitCode>>
               ELSE /\ IF proc[activeBackendProcess] = "running"
                       THEN /\ proc' = [proc EXCEPT ![activeBackendProcess] = "exited"]
                            /\ exitCode' = [exitCode EXCEPT ![activeBackendProcess] = NullCode]
                       ELSE UNCHANGED <<proc, exitCode>>
                    /\ UNCHANGED taskkill
            /\ activeBackendProcess' = 0
       ELSE UNCHANGED <<activeBackendProcess, proc, exitCode, taskkill>>
    /\ UNCHANGED <<isPackaged, platform, calls, outputData, errorData, promise,
                   settleCalls, sent, stdoutRaw, stderrRaw, nData, cuts, nErrData, files,
                   spawnCall,
                   request, child>>
    /\ UNCHANGED <<cacheVars, depVars, batVars, panelVars>>

(***************************************************************************)
(* The taskkill command started by kill-backend reaches the worker: a      *)
(* worker still running is terminated with exit code 1.                    *)
(***************************************************************************)
Taskkill(j) ==
    /\ j \in taskkill
    /\ taskkill' = taskkill \ {j}
    /\ IF proc[j] = "running"
       THEN /\ proc' = [proc EXCEPT ![j] = "exited"]
            /\ exitCode' = [exitCode EXCEPT ![j] = 1]
            /\ child' = [child EXCEPT ![j] = IF @ = "running" THEN "ended" ELSE @]
       ELSE UNCHANGED <<proc, exitCode, child>>
    /\ UNCHANGED <<isPackaged, platform, calls, activeBackendProcess, outputData,
                   errorData, promise, settleCalls, sent, stdoutRaw, stderrRaw, nData, cuts,
                   nErrData, killed, files, spawnCall, request>>
    /\ UNCHANGED <<cacheVars, depVars, batVars, panelVars>>

(***************************************************************************)
(* The worker starts a process of its own, which ends when it likes.       *)
(***************************************************************************)
ChildSpawn(j) ==
    /\ proc[j] = "running"
    /\ child[j] = "none"
    /\ child' = [child EXCEPT ![j] = "running"]
    /\ UNCHANGED <<isPackaged, platform, calls, activeBackendProcess, proc, exitCode,
                   outputData, errorData, promise, settleCalls, sent, stdoutRaw, stderrRaw,
                   nData, cuts, nErrData, killed, taskkill, files, spawnCall, request>>
    /\ UNCHANGED <<cacheVars, depVars, batVars, panelVars>>

ChildExit(j) ==
    /\ child[j] = "running"
    /\ child' = [child EXCEPT ![j] = "ended"]
    /\ UNCHANGED <<isPackaged, platform, calls, activeBackendProcess, proc, exitCode,
                   outputData, errorData, promise, settleCalls, sent, stdoutRaw, stderrRaw,
                   nData, cuts, nErrData, killed, taskkill, files, spawnCall, request>>
    /\ UNCHANGED <<cacheVars, depVars, batVars, panelVars>>

(***************************************************************************)
(* cache-video                                                             *)
(***************************************************************************)
\* the calls of cache-video that have returned or thrown
cacheSettled == {c \in 1..Len(cacheCalls) : cacheCalls[c].pc \in {"resolved", "rejected"}}

\* the order number the next copy that opens its destination gets
nextOpen == Cardinality({c \in 1..Len(cacheCalls) : cacheCalls[c].opened > 0}) + 1

\* whether the source of a copy can be read: it names a file that exists, and
\* not an entry "." or ".." looked up in that file
sourceExists(filePath) ==
    /\ namesFileOf[filePath]
    /\ \/ normalizedInputOf[filePath] \in SourceFiles
       \/ /\ normalizedInputOf[filePath] \in Destinations
          /\ cacheFiles[normalizedInputOf[filePath]] # "absent"

\* faulty variant: the destination is never taken to exist
existsDestNever(dest) == FALSE
\* fs.existsSync(destPath)
existsDest(dest) == cacheFiles[dest] # "absent"

\* faulty variant: the error is swallowed and the destination returned
cacheCatchReturns(call, err) ==
    [call EXCEPT !.pc = "resolved", !.ret = call.dest, !.error = err]
\* the catch block: the error is logged and thrown again
cacheCatch(call, err) == [call EXCEPT !.pc = "rejected", !.error = err]

\* The handler up to its await: the directory is made if it is missing (mkdirOk
\* says whether mkdirSync succeeds), a source inside the cache is returned as it
\* is, an existing destination is returned, and else copyFile is called.
CacheVideo(filePath, mkdirOk) ==
    /\ Len(cacheCalls) < MaxCacheCalls
    /\ LET dest == destPathOf[isPackaged][filePath]
           call == [filePath |-> filePath, pc |-> "copying", ret |-> <<>>,
                    dest |-> <<>>, copied |-> FALSE, found |-> "none",
                    opened |-> 0, after |-> cacheSettled, atReturn |-> "none",
                    error |-> "none"]
       IN  IF ~cacheDirExists /\ ~mkdirOk
           THEN /\ cacheCalls' = Append(cacheCalls, cacheCatch(call, "mkdir"))
                /\ UNCHANGED <<cacheDirExists, cacheFiles>>
           ELSE /\ cacheDirExists' = TRUE
                /\ UNCHANGED cacheFiles
                /\ IF inCacheOf[isPackaged][filePath]
                   THEN cacheCalls' = Append(cacheCalls,
                            [call EXCEPT !.pc = "resolved",
                                         !.ret = normalizedInputOf[filePath]])
                   ELSE IF existsDest(dest)
                   THEN cacheCalls' = Append(cacheCalls,
                            [call EXCEPT !.pc = "resolved", !.ret = dest, !.dest = dest,
                                         !.found = cacheFiles[dest],
                                         !.atReturn = cacheFiles[dest]])
                   ELSE cacheCalls' = Append(cacheCalls,
                            [call EXCEPT !.dest = dest, !.copied = TRUE,
                                         !.found = cacheFiles[dest]])
    /\ UNCHANGED <<isPackaged, platform>>
    /\ UNCHANGED <<backendVars, depVars, batVars, panelVars>>

\* The copy of call c opens its files: a source that cannot be read fails the
\* copy and the handler rethrows; else the destination is created or truncated.
CopyFileOpen(c) ==
    /\ c \in 1..Len(cacheCalls)
    /\ cacheCalls[c].pc = "copying"
    /\ IF sourceExists(cacheCalls[c].filePath)
       THEN /\ cacheFiles' = [cacheFiles EXCEPT ![cacheCalls[c].dest] = "partial"]
            /\ cacheCalls' = [cacheCalls EXCEPT ![c].pc = "writing", ![c].opened = nextOpen]
       ELSE /\ cacheCalls' = [cacheCalls EXCEPT ![c] = cacheCatch(@, "copy")]
            /\ UNCHANGED cacheFiles
    /\ UNCHANGED <<isPackaged, platform, cacheDirExists>>
    /\ UNCHANGED <<backendVars, depVars, batVars, panelVars>>

\* The copy of call c fails while it writes (the disk is full, say): the
\* destination is removed, or left as far as it was written, and the handler
\* rethrows.
CopyFileFail(c) ==
    /\ c \in 1..Len(cacheCalls)
    /\ cacheCalls[c].pc = "writing"
    /\ \E left \in {"absent", "partial"} :
          cacheFiles' = [cacheFiles EXCEPT ![cacheCalls[c].dest] = left]
    /\ cacheCalls' = [cacheCalls EXCEPT ![c] = cacheCatch(@, "copy")]
    /\ UNCHANGED <<isPackaged, platform, cacheDirExists>>
    /\ UNCHANGED <<backendVars, depVars, batVars, panelVars>>

\* The copy of call c has written its last byte and the handler returns the
\* destination. The file is whole unless a copy that truncated it later is
\* still writing.
CopyFileDone(c) ==
    /\ c \in 1..Len(cacheCalls)
    /\ cacheCalls[c].pc = "writing"
    /\ LET later == {d \in 1..Len(cacheCalls) :
                        /\ cacheCalls[d].pc = "writing"
                        /\ cacheCalls[d].dest = cacheCalls[c].dest
                        /\ cacheCalls[d].opened > cacheCalls[c].opened}
           whole == IF later = {} THEN "full" ELSE "partial"
       IN  /\ cacheFiles' = [cacheFiles EXCEPT ![cacheCalls[c].dest] = whole]
           /\ cacheCalls' = [cacheCalls EXCEPT ![c].pc = "resolved",
                                               ![c].ret = cacheCalls[c].dest,
                                               ![c].atReturn = whole]
    /\ UNCHANGED <<isPackaged, platform, cacheDirExists>>
    /\ UNCHANGED <<backendVars, depVars, batVars, panelVars>>

(***************************************************************************)
(* fix-python-env and check-python-env.  One request at a time is          *)
(* followed: the requests share no state.                                  *)
(***************************************************************************)
\* the calls of resolve in rs, made on the request d: the first one settles
depSettle(d, rs) ==
    [d EXCEPT !.result = IF d.resolveCalls = 0 /\ Len(rs) > 0 THEN rs[1] ELSE @,
              !.resolveCalls = @ + Len(rs)]

\* The executor of the handler: it resolves at once when the interpreter, the
\* manifest or the script is missing, and spawns otherwise.  A command that
\* cannot be run gives a child that will emit 'error'.
DepRequest(kind, fs) ==
    /\ dep.pc \in {"idle", "done", "closed"}
    /\ LET early == depEarlyOf[kind][isPackaged][fs]
           d == [DepIdle EXCEPT !.kind = kind, !.files = fs]
           sp == depSpawnOf[kind][isPackaged][fs]
       IN  IF Len(early) > 0
           THEN dep' = depSettle([d EXCEPT !.pc = "done"], early)
           ELSE dep' = [d EXCEPT !.spawn = sp,
                                 !.pc = IF existsSync(fs, sp.file) THEN "running"
                                        ELSE "failing"]
    /\ UNCHANGED <<isPackaged, platform, backendVars, cacheVars, batVars, panelVars>>

\* stdout.on('data') of the child
DepStdout(str) ==
    /\ dep.pc \in {"running", "exited"}
    /\ dep.nOut < MaxDepData
    /\ str \in DepOutChunks(dep.kind)
    /\ dep' = [dep EXCEPT !.output = @ \o str, !.nOut = @ + 1]
    /\ UNCHANGED <<isPackaged, platform, backendVars, cacheVars, batVars, panelVars>>

\* stderr.on('data') of the child: fix-python-env keeps the text,
\* check-python-env only logs it
DepStderr(str) ==
    /\ dep.pc \in {"running", "exited"}
    /\ dep.nErr < MaxDepErrData
    /\ dep' = [dep EXCEPT !.errorOut = IF dep.kind = "fix" THEN @ \o str ELSE @,
                          !.nErr = @ + 1]
    /\ UNCHANGED <<isPackaged, platform, backendVars, cacheVars, batVars, panelVars>>

\* the child ends
DepExit(code) ==
    /\ dep.pc = "running"
    /\ dep' = [dep EXCEPT !.pc = "exited", !.code = code]
    /\ UNCHANGED <<isPackaged, platform, backendVars, cacheVars, batVars, panelVars>>

\* on('error') of a child that could not be started
DepSpawnError ==
    /\ dep.pc = "failing"
    /\ dep' = depSettle([dep EXCEPT !.pc = "errored", !.code = SpawnFailedCode],
                        depError(dep.kind, dep.spawn.file))
    /\ UNCHANGED <<isPackaged, platform, backendVars, cacheVars, batVars, panelVars>>

\* faulty variant: the 'close' callback of the child clears the tracked handle,
\* as the one of a worker does
DepCloseClearsHandle ==
    /\ dep.pc \in {"exited", "errored"}
    /\ dep' = depSettle([dep EXCEPT !.pc = "closed"],
                        depClose(dep.kind, dep.code, dep.output, dep.errorOut))
    /\ activeBackendProcess' = 0
    /\ UNCHANGED <<calls, proc, exitCode, outputData, errorData,
                   promise, settleCalls, sent, stdoutRaw, stderrRaw, nData, cuts,
                   nErrData, killed, taskkill, files, spawnCall, request, child>>
    /\ UNCHANGED <<isPackaged, platform, cacheVars, batVars, panelVars>>

\* on('close') of the child, after its exit or its 'error'
DepClose ==
    /\ dep.pc \in {"exited", "errored"}
    /\ dep' = depSettle([dep EXCEPT !.pc = "closed"],
                        depClose(dep.kind, dep.code, dep.output, dep.errorOut))
    /\ UNCHANGED <<isPackaged, platform, backendVars, cacheVars, batVars, panelVars>>

(***************************************************************************)
(* start.bat, the launcher.  One action per block of the script, from a    *)
(* label (or the line after a branch) to the next goto; a command that is  *)
(* run ends with an exit code of BatCodes.                                 *)
(***************************************************************************)
\* lines 1-15: the tests for an unpacked Python and for python.zip, then the prompt
BatStart(fs, input) ==
    /\ bat.pc = "off"
    /\ LET b == [bat EXCEPT !.fs = fs]
       IN  IF PythonExe \in fs \/ PythonZip \notin fs
           THEN input = "" /\ bat' = [b EXCEPT !.pc = "SKIP_UNZIP"]
           ELSE bat' = [b EXCEPT !.choice = input,
                                 !.pc = IF input = "2" THEN "MANUAL_UNZIP"
                                        ELSE "AUTO_UNZIP"]
    /\ UNCHANGED <<isPackaged, platform, backendVars, cacheVars, depVars, panelVars>>

\* :AUTO_UNZIP, lines 17-22: tar --version, and PowerShell when there is no tar
AutoUnzip(code) ==
    /\ bat.pc = "AUTO_UNZIP"
    /\ LET b == batRan(bat, 21, code)
       IN  bat' = [b EXCEPT !.pc = IF ifErrorlevel(code, 1) THEN "USE_POWERSHELL"
                                   ELSE "USE_TAR"]
    /\ UNCHANGED <<isPackaged, platform, backendVars, cacheVars, depVars, panelVars>>

\* :USE_TAR, lines 24-28: tar -xf, then `if errorlevel 0 goto :UNZIP_DONE`;
\* the warning of line 28 falls through to :USE_POWERSHELL
UseTar(code) ==
    /\ bat.pc = "USE_TAR"
    /\ LET b == batMade(batRan(bat, 26, code), PythonExe, code)
       IN  IF ifErrorlevel(code, 0)
           THEN bat' = [b EXCEPT !.pc = "UNZIP_DONE"]
           ELSE bat' = [b EXCEPT !.pc = "USE_POWERSHELL", !.echoed = @ \cup {28}]
    /\ UNCHANGED <<isPackaged, platform, backendVars, cacheVars, depVars, panelVars>>

\* :USE_POWERSHELL, lines 30-33: Expand-Archive
UsePowershell(code) ==
    /\ bat.pc = "USE_POWERSHELL"
    /\ bat' = [batMade(batRan(bat, 32, code), PythonExe, code) EXCEPT !.pc = "UNZIP_DONE"]
    /\ UNCHANGED <<isPackaged, platform, backendVars, cacheVars, depVars, panelVars>>

\* :MANUAL_UNZIP, lines 35-46: the script waits for a key; the user has unpacked
\* the archive by then or has not, and the script asks again until python.exe exists
ManualUnzip(unpacked) ==
    /\ bat.pc = "MANUAL_UNZIP"
    /\ LET b == [bat EXCEPT !.fs = IF unpacked THEN @ \cup {PythonExe} ELSE @]
       IN  IF PythonExe \in b.fs
           THEN bat' = [b EXCEPT !.pc = "UNZIP_DONE"]
           ELSE bat' = [b EXCEPT !.echoed = @ \cup {43}]
    /\ UNCHANGED <<isPackaged, platform, backendVars, cacheVars, depVars, panelVars>>

\* :UNZIP_DONE, lines 48-49: the message that the Python environment is ready
UnzipDone ==
    /\ bat.pc = "UNZIP_DONE"
    /\ bat' = [bat EXCEPT !.pc = "SKIP_UNZIP", !.echoed = @ \cup {49}]
    /\ UNCHANGED <<isPackaged, platform, backendVars, cacheVars, depVars, panelVars>>

\* :SKIP_UNZIP, lines 51-73: the banner, PATH, and node --version
SkipUnzip(code) ==
    /\ bat.pc = "SKIP_UNZIP"
    /\ bat' = [batRan(bat, 72, code) EXCEPT
                  !.pc = IF ~ifErrorlevel(code, 1) THEN "NODE_READY" ELSE "NODE_MISSING"]
    /\ UNCHANGED <<isPackaged, platform, backendVars, cacheVars, depVars, panelVars>>

\* lines 75-90: without a node.exe of an earlier run, node.zip is downloaded
\* unless it is there, unpacked with tar and, when tar fails, with PowerShell
NodeMissing(download, tar, expand) ==
    /\ bat.pc = "NODE_MISSING"
    /\ IF NodeExe \in bat.fs
       THEN /\ download = 0 /\ tar = 0 /\ expand = 0
            /\ bat' = [bat EXCEPT !.pc = "SET_NODE_PATH"]
       ELSE LET b1 == IF NodeZip \in bat.fs THEN bat
                      ELSE batMade(batRan(bat, 83, download), NodeZip, download)
                b2 == batMade(batRan(b1, 87, tar), NodeExe, tar)
                b3 == IF ifErrorlevel(tar, 1)
                      THEN batMade(batRan(b2, 89, expand), NodeExe, expand)
                      ELSE b2
            IN  /\ NodeZip \in bat.fs => download = 0
                /\ ~ifErrorlevel(tar, 1) => expand = 0
                /\ NodeZip \notin b1.fs => tar = 1 /\ expand = 1
                /\ bat' = [b3 EXCEPT !.pc = "SET_NODE_PATH"]
    /\ UNCHANGED <<isPackaged, platform, backendVars, cacheVars, depVars, panelVars>>

\* :SET_NODE_PATH, lines 92-101: node --version again, now with the local
\* directory on PATH; the script exits when that fails
SetNodePath(code, config) ==
    /\ bat.pc = "SET_NODE_PATH"
    /\ NodeExe \notin bat.fs => code = 1
    /\ LET b == batRan(bat, 95, code)
       IN  IF ifErrorlevel(code, 1)
           THEN config = 0 /\ bat' = [b EXCEPT !.pc = "exit", !.echoed = @ \cup {97}]
           ELSE bat' = [batRan(b, 101, config) EXCEPT !.pc = "NODE_READY"]
    /\ UNCHANGED <<isPackaged, platform, backendVars, cacheVars, depVars, panelVars>>

\* :NODE_READY, lines 103-123: node --version, cd ui, npm install when there
\* is no node_modules, and RETRY_COUNT=0
NodeReady(version, install) ==
    /\ bat.pc = "NODE_READY"
    /\ LET b == batRan(bat, 105, version)
       IN  IF NodeModules \notin bat.fs
           THEN bat' = [batMade(batRan(b, 119, install), NodeModules, install)
                           EXCEPT !.RETRY_COUNT = "0", !.pc = "START_DEV"]
           ELSE /\ install = 0
                /\ bat' = [b EXCEPT !.RETRY_COUNT = "0", !.pc = "START_DEV"]
    /\ UNCHANGED <<isPackaged, platform, backendVars, cacheVars, depVars, panelVars>>

\* :START_DEV, lines 125-128: npm run dev
StartDev(code) ==
    /\ bat.pc = "START_DEV"
    /\ bat' = [batRan(bat, 126, code) EXCEPT
                  !.pc = IF ifErrorlevel(code, 1) THEN "CHECK_ERROR" ELSE "END"]
    /\ UNCHANGED <<isPackaged, platform, backendVars, cacheVars, depVars, panelVars>>

\* faulty variant: RETRY_COUNT is tested after the repair instead of before it
CheckErrorLate(code) ==
    /\ bat.pc = "CHECK_ERROR"
    /\ LET b == batMade(batRan(bat, 135, code), NodeModules, code)
       IN  IF bat.RETRY_COUNT = "1"
           THEN bat' = [b EXCEPT !.pc = "END"]
           ELSE bat' = [b EXCEPT !.RETRY_COUNT = "1", !.pc = "START_DEV",
                                 !.echoed = @ \cup {133}]
    /\ UNCHANGED <<isPackaged, platform, backendVars, cacheVars, depVars, panelVars>>

\* :CHECK_ERROR, lines 130-138: the end after a retry; otherwise npm install,
\* RETRY_COUNT=1 and back to :START_DEV
CheckError(code) ==
    /\ bat.pc = "CHECK_ERROR"
    /\ IF bat.RETRY_COUNT = "1"
       THEN code = 0 /\ bat' = [bat EXCEPT !.pc = "END"]
       ELSE bat' = [batMade(batRan(bat, 135, code), NodeModules, code)
                       EXCEPT !.RETRY_COUNT = "1", !.pc = "START_DEV",
                              !.echoed = @ \cup {133}]
    /\ UNCHANGED <<isPackaged, platform, backendVars, cacheVars, depVars, panelVars>>

\* :END, lines 140-141: pause, and the script is over
BatEnd ==
    /\ bat.pc = "END"
    /\ bat' = [bat EXCEPT !.pc = "exit"]
    /\ UNCHANGED <<isPackaged, platform, backendVars, cacheVars, depVars, panelVars>>

(***************************************************************************)
(* TTSConfig, the settings panel of Index-TTS.  The dialogs are modal: the *)
(* panel behind an open dialog takes no input.                             *)
(***************************************************************************)
\* the key of the view the panel showed last, and the view of Index-TTS
ViewKey == "last_tts_view"
IndexView == <<"i", "n", "d", "e", "x", "t", "t", "s">>

\* no dialog of the panel is open
PanelFree == panel.mounted /\ ~panel.isResetDialogOpen /\ ~panel.feedback

\* the component is mounted: the states take their initial values, the load
\* effect replaces them by what is stored, and the view effect stores the view
Mount ==
    /\ ~panel.mounted
    /\ panel' = [panel EXCEPT !.mounted = TRUE, !.values = loadConfig(localStorage),
                              !.isResetDialogOpen = FALSE, !.feedback = FALSE,
                              !.handler = "mount"]
    /\ localStorage' = setItem(localStorage, ViewKey,
                               IF truthy(getItem(localStorage, ViewKey))
                               THEN getItem(localStorage, ViewKey) ELSE IndexView)
    /\ UNCHANGED <<isPackaged, platform, backendVars, cacheVars, depVars, batVars>>

\* the component is unmounted: its states are gone
Unmount ==
    /\ panel.mounted
    /\ panel' = [panel EXCEPT !.mounted = FALSE, !.values = DefaultParams,
                              !.isResetDialogOpen = FALSE, !.feedback = FALSE,
                              !.handler = "unmount"]
    /\ UNCHANGED <<isPackaged, platform, backendVars, cacheVars, depVars, batVars,
                   localStorage>>

\* a slider, the token field or the file dialog sets the state of key k
SetParam(k, v) ==
    /\ PanelFree
    /\ panel.edits < MaxPanelEdits
    /\ v \in ParamChoices[k]
    /\ v # panel.values[k]
    /\ panel' = [panel EXCEPT !.values[k] = v, !.edits = @ + 1, !.handler = "set"]
    /\ UNCHANGED <<isPackaged, platform, backendVars, cacheVars, depVars, batVars,
                   localStorage>>

\* the button that clears the reference audio, shown while there is one
ClearRef ==
    /\ PanelFree
    /\ panel.values[RefKey] # <<>>
    /\ panel' = [panel EXCEPT !.values[RefKey] = <<>>, !.handler = "clearRef"]
    /\ localStorage' = removeItem(localStorage, RefKey)
    /\ UNCHANGED <<isPackaged, platform, backendVars, cacheVars, depVars, batVars>>

\* handleSaveIndex: the nine states are stored and the feedback dialog opens
handleSaveIndex ==
    /\ PanelFree
    /\ localStorage' = saveAll(localStorage, panel.values, IndexKeys)
    /\ panel' = [panel EXCEPT !.feedback = TRUE, !.handler = "handleSaveIndex"]
    /\ UNCHANGED <<isPackaged, platform, backendVars, cacheVars, depVars, batVars>>

\* the feedback dialog is closed
CloseFeedback ==
    /\ panel.mounted /\ panel.feedback
    /\ panel' = [panel EXCEPT !.feedback = FALSE, !.handler = "closeFeedback"]
    /\ UNCHANGED <<isPackaged, platform, backendVars, cacheVars, depVars, batVars,
                   localStorage>>

\* the reset button opens the confirmation dialog
OpenResetDialog ==
    /\ PanelFree
    /\ panel' = [panel EXCEPT !.isResetDialogOpen = TRUE, !.handler = "openReset"]
    /\ UNCHANGED <<isPackaged, platform, backendVars, cacheVars, depVars, batVars,
                   localStorage>>

\* onCancel of the confirmation dialog
CancelReset ==
    /\ panel.mounted /\ panel.isResetDialogOpen
    /\ panel' = [panel EXCEPT !.isResetDialogOpen = FALSE, !.handler = "cancelReset"]
    /\ UNCHANGED <<isPackaged, platform, backendVars, cacheVars, depVars, batVars,
                   localStorage>>

\* confirmResetIndex, onConfirm of the confirmation dialog: the nine states
\* take their initial values and the key of the reference audio is removed
confirmResetIndex ==
    /\ panel.mounted /\ panel.isResetDialogOpen
    /\ panel' = [panel EXCEPT !.values = DefaultParams, !.isResetDialogOpen = FALSE,
                              !.handler = "confirmResetIndex"]
    /\ localStorage' = removeItem(localStorage, RefKey)
    /\ UNCHANGED <<isPackaged, platform, backendVars, cacheVars, depVars, batVars>>

(***************************************************************************)
(* Spec: the supervisor with up to MaxJobs requests, each worker writing   *)
(* to its stdout only.                                                     *)
(***************************************************************************)
Next ==
    \/ RunBackend(MaxJobs, {Installed}, {<<>>})
    \/ \E j \in Jobs, str \in Chunks : StdoutData(j, str, MaxData)
    \/ \E j \in Jobs, code \in ExitCodes : WorkerExit(j, code)
    \/ \E j \in Jobs : Close(j)
    \/ KillBackend
    \/ \E j \in Jobs : Taskkill(j)

Spec == Init /\ [][Next]_vars

\* A started taskkill command eventually runs, and the 'close' event of a
\* worker that has ended is eventually dispatched; a worker is not obliged to
\* write or to end.  The second conjunct is WF_vars(Close(j)) with the enabling
\* condition of Close(j), proc[j] = "exited", written out.
Fairness ==
    \A j \in Jobs : /\ WF_vars(Taskkill(j))
                     /\ (<>[](proc[j] = "exited") => []<><<Close(j)>>_vars)

FairSpec == Spec /\ Fairness

(***************************************************************************)
(* CodecSpec: one job in the development tree, with a worker that writes   *)
(* protocol lines and terminal payloads in pieces.                         *)
(***************************************************************************)
CodecInit == Init /\ ~isPackaged /\ platform = "linux"

CodecNext ==
    \/ RunBackend(1, {Installed}, {<<>>})
    \/ \E str \in CodecChunks : StdoutData(1, str, MaxCodecData)
    \/ \E str \in ErrChunks : StderrData(1, str)
    \/ \E code \in ExitCodes : WorkerExit(1, code)
    \/ Close(1)

CodecSpec == CodecInit /\ [][CodecNext]_vars

(***************************************************************************)
(* LineSpec: one job in the development tree, with a worker that writes    *)
(* Progress and Partial lines, some of them corrupt.                       *)
(***************************************************************************)
LineNext ==
    \/ RunBackend(1, {Installed}, {<<>>})
    \/ \E str \in LineChunks : StdoutData(1, str, MaxLineData)
    \/ \E code \in ExitCodes : WorkerExit(1, code)
    \/ Close(1)

LineSpec == CodecInit /\ [][LineNext]_vars

(***************************************************************************)
(* ShapeSpec: one job in the development tree, with a worker that writes   *)
(* whole lines, some of them naming a progress inside other text.          *)
(***************************************************************************)
ShapeNext ==
    \/ RunBackend(1, {Installed}, {<<>>})
    \/ \E str \in ShapeChunks : StdoutData(1, str, MaxShapeData)
    \/ \E code \in ExitCodes : WorkerExit(1, code)
    \/ Close(1)

ShapeSpec == CodecInit /\ [][ShapeNext]_vars

(***************************************************************************)
(* MixSpec: one job in the development tree, with a worker that writes     *)
(* protocol text to stderr as well as to stdout.                           *)
(***************************************************************************)
MixNext ==
    \/ RunBackend(1, {Installed}, {<<>>})
    \/ \E str \in MixChunks : StdoutData(1, str, MaxMixData)
    \/ \E str \in MixErrChunks : StderrData(1, str)
    \/ \E code \in ExitCodes : WorkerExit(1, code)
    \/ Close(1)

MixSpec == CodecInit /\ [][MixNext]_vars

(***************************************************************************)
(* KillSpec: requests that may find no interpreter, workers that start     *)
(* processes of their own, and kill-backend; no output.                    *)
(***************************************************************************)
KillNext ==
    \/ RunBackend(MaxJobs, KillFileSystems, {<<>>})
    \/ \E j \in Jobs : ChildSpawn(j)
    \/ \E j \in Jobs : ChildExit(j)
    \/ \E j \in Jobs, code \in ExitCodes : WorkerExit(j, code)
    \/ \E j \in Jobs : Close(j)
    \/ KillBackend
    \/ \E j \in Jobs : Taskkill(j)

KillSpec == Init /\ [][KillNext]_vars

(***************************************************************************)
(* EnvSpec: requests with any arguments in any file system.                *)
(***************************************************************************)
EnvNext ==
    \/ RunBackend(MaxEnvJobs, FileSystems, Requests)
    \/ \E j \in Jobs, code \in ExitCodes : WorkerExit(j, code)
    \/ \E j \in Jobs : Close(j)

EnvSpec == Init /\ [][EnvNext]_vars

\* EnvSpec with the events of the workers dispatched
EnvFairSpec == EnvSpec /\ Fairness

(***************************************************************************)
(* CacheSpec: cache-video requests and their copies, over a .cache         *)
(* directory that may hold files of earlier sessions.  Paths are in POSIX  *)
(* form, so the platform is one that has them.                             *)
(***************************************************************************)
\* the destinations an earlier session may have left in the cache
PreCached(packaged) == {destPath(packaged, VideoA)}

CacheInit ==
    /\ isPackaged \in BOOLEAN
    /\ platform = "linux"
    /\ BackendIdle
    /\ cacheDirExists \in BOOLEAN
    /\ \E pre \in SUBSET PreCached(isPackaged) :
          /\ pre # {} => cacheDirExists
          /\ cacheFiles = [d \in Destinations |-> IF d \in pre THEN "full" ELSE "absent"]
    /\ cacheCalls = <<>>
    /\ dep = DepIdle
    /\ FrontIdle

CacheNext ==
    \/ \E filePath \in CacheSources(isPackaged), mkdirOk \in BOOLEAN :
          CacheVideo(filePath, mkdirOk)
    \/ \E c \in 1..MaxCacheCalls : CopyFileOpen(c)
    \/ \E c \in 1..MaxCacheCalls : CopyFileFail(c)
    \/ \E c \in 1..MaxCacheCalls : CopyFileDone(c)

CacheSpec == CacheInit /\ [][CacheNext]_vars

(***************************************************************************)
(* DepSpec: requests to repair and to check the Python environment.        *)
(***************************************************************************)
DepNext ==
    \/ \E kind \in DepKinds, fs \in DepFileSystems : DepRequest(kind, fs)
    \/ \E str \in DepOutChunks("fix") \cup DepOutChunks("check") : DepStdout(str)
    \/ \E str \in DepErrChunks : DepStderr(str)
    \/ \E code \in ExitCodes : DepExit(code)
    \/ DepSpawnError
    \/ DepClose

DepSpec == Init /\ [][DepNext]_vars

\* A child that was started ends and the events of a child are dispatched: the
\* first and the last conjunct are weak fairness of the step with its enabling
\* condition written out.
DepFairness ==
    /\ (<>[](dep.pc = "running") => []<><<\E code \in ExitCodes : DepExit(code)>>_vars)
    /\ WF_vars(DepSpawnError)
    /\ (<>[](dep.pc \in {"exited", "errored"}) => []<><<DepClose>>_vars)

DepFairSpec == DepSpec /\ DepFairness

(***************************************************************************)
(* ResolveSpec: a job and requests to check and repair the environment,    *)
(* each finding one of the file systems.                                   *)
(***************************************************************************)
ResolveNext ==
    \/ RunBackend(1, DepFileSystems, {<<>>})
    \/ \E code \in ExitCodes : WorkerExit(1, code)
    \/ Close(1)
    \/ \E kind \in DepKinds, fs \in DepFileSystems : DepRequest(kind, fs)
    \/ \E code \in ExitCodes : DepExit(code)
    \/ DepSpawnError
    \/ DepClose

ResolveSpec == Init /\ [][ResolveNext]_vars

(***************************************************************************)
(* HandlersSpec: one job and kill-backend beside requests of cache-video,  *)
(* fix-python-env and check-python-env, in any order.                      *)
(***************************************************************************)
HandlersNext ==
    \/ RunBackend(1, {Installed}, {<<>>})
    \/ \E code \in ExitCodes : WorkerExit(1, code)
    \/ Close(1)
    \/ KillBackend
    \/ Taskkill(1)
    \/ \E mkdirOk \in BOOLEAN : CacheVideo(VideoA, mkdirOk)
    \/ \E c \in 1..MaxCacheCalls : CopyFileOpen(c)
    \/ \E c \in 1..MaxCacheCalls : CopyFileDone(c)
    \/ \E kind \in DepKinds : DepRequest(kind, DepComplete)
    \/ \E code \in ExitCodes : DepExit(code)
    \/ DepClose

HandlersSpec == Init /\ [][HandlersNext]_vars

(***************************************************************************)
(* BatSpec: one run of the launcher, from any set of files and with any    *)
(* exit code of each command.                                              *)
(***************************************************************************)
BatNext ==
    \/ \E fs \in BatFileSystems, input \in BatChoices : BatStart(fs, input)
    \/ \E code \in BatCodes : AutoUnzip(code)
    \/ \E code \in BatCodes : UseTar(code)
    \/ \E code \in BatUntested : UsePowershell(code)
    \/ \E unpacked \in BOOLEAN : ManualUnzip(unpacked)
    \/ UnzipDone
    \/ \E code \in BatCodes : SkipUnzip(code)
    \/ \E download, expand \in BatUntested : \E tar \in BatCodes :
          NodeMissing(download, tar, expand)
    \/ \E code \in BatCodes : \E config \in BatUntested : SetNodePath(code, config)
    \/ \E version, install \in BatUntested : NodeReady(version, install)
    \/ \E code \in BatCodes : StartDev(code)
    \/ \E code \in BatUntested : CheckError(code)
    \/ BatEnd

\* the launcher is a Windows script that starts the development build
BatInit == Init /\ ~isPackaged /\ platform = "win32"

BatSpec == BatInit /\ [][BatNext]_vars

\* every command the script runs comes to an end, and a pause gets its key
BatFairness ==
    /\ WF_vars(\E code \in BatCodes : StartDev(code))
    /\ WF_vars(\E code \in BatUntested : CheckError(code))
    /\ WF_vars(BatEnd)

BatFairSpec == BatSpec /\ BatFairness

(***************************************************************************)
(* PanelSpec: the settings panel, mounted and unmounted any number of      *)
(* times, with up to MaxPanelEdits changes of parameters.                  *)
(***************************************************************************)
PanelNext ==
    \/ Mount
    \/ Unmount
    \/ \E k \in IndexKeys : \E v \in ParamChoices[k] : SetParam(k, v)
    \/ ClearRef
    \/ handleSaveIndex
    \/ CloseFeedback
    \/ OpenResetDialog
    \/ CancelReset
    \/ confirmResetIndex

PanelSpec == CodecInit /\ [][PanelNext]_vars

(***************************************************************************)
(* Claims.                                                                 *)
(***************************************************************************)
\* the accumulated stdout of job j holds both sentinels
BothMarkers(out) == indexOf(out, startMarker) # -1 /\ indexOf(out, endMarker) # -1
Closed(j) == proc[j] = "closed"
Settled(j) == promise[j].kind # "pending"

\* C1: at every instant at most one worker started by run-backend is alive
\* (spawned and its close event not yet handled).
C1_AtMostOneWorker == Cardinality({j \in Jobs : Alive(j)}) <= 1

\* C2: if kill-backend is called while a job's worker is alive, the run-backend
\* promise of that job eventually settles.
C2_KillSettles == \A j \in Jobs : (killed[j] # "no") ~> Settled(j)

\* C3: a job whose worker was the tracked handle when kill-backend returned true
\* settles as a rejection, never as a resolution.
C3_KilledJobRejects ==
    \A j \in Jobs : killed[j] = "tracked" /\ Settled(j) => promise[j].kind = "rejected"

\* C4: the promise is resolved only by the close event, never while the worker is
\* alive (even with both sentinels in the buffer), and a close makes exactly one
\* call of resolve or reject.
C4_SettledOnlyOnClose ==
    \A j \in Jobs :
        /\ promise[j].kind = "resolved" => Closed(j)
        /\ Alive(j) => ~Settled(j) /\ settleCalls[j] = 0
        /\ Closed(j) => Settled(j) /\ settleCalls[j] = 1

C4_Witness ==
    \E i \in Jobs, j \in Jobs :
        /\ Alive(i) /\ BothMarkers(outputData[i]) /\ ~Settled(i)
        /\ Closed(j) /\ settleCalls[j] = 1

\* C5: after an exit with a non-zero code the promise is rejected with that code
\* and all of the stderr text delivered, whatever stdout holds.
C5_NonZeroExitRejects ==
    \A j \in Jobs :
        Closed(j) /\ exitCode[j] # 0 => promise[j] = ExitError(exitCode[j], stderrRaw[j])

C5_Witness ==
    \E j \in Jobs :
        /\ Closed(j) /\ exitCode[j] # 0 /\ stderrRaw[j] # <<>>
        /\ BothMarkers(stdoutRaw[j])
        /\ JSONParse(trim(substring(stdoutRaw[j],
                                    indexOf(stdoutRaw[j], startMarker) + Len(startMarker),
                                    indexOf(stdoutRaw[j], endMarker)))).ok
        /\ promise[j].kind = "rejected"

Malformed(out) ==
    /\ BothMarkers(out)
    /\ ~JSONParse(trim(substring(out, indexOf(out, startMarker) + Len(startMarker),
                                 indexOf(out, endMarker)))).ok

WellFormedLine(l) ==
    \/ /\ StartsAt(l, progressTag \o <<" ">>, 0)
       /\ Len(l) > Len(progressTag) + 1
       /\ \A i \in (Len(progressTag) + 2)..Len(l) : l[i] \in Digits
    \/ /\ StartsAt(l, partialTag \o <<" ">>, 0)
       /\ JSONParse(SubSeq(l, Len(partialTag) + 2, Len(l))).ok

\* well-formed lines, each ended by a newline, followed by one sentinel-wrapped
\* JSON payload and at most a final newline
WellFormedStream(s) ==
    LET i == indexOf(s, startMarker)
        e == indexFrom(s, endMarker, i + Len(startMarker))
        lines == split(SubSeq(s, 1, i))
    IN  /\ i # -1
        /\ e # -1
        /\ lines[Len(lines)] = <<>>
        /\ \A k \in 1..(Len(lines) - 1) : WellFormedLine(lines[k])
        /\ JSONParse(substring(s, i + Len(startMarker), e)).ok
        /\ SubSeq(s, e + Len(endMarker) + 1, Len(s)) \in {<<>>, <<"\n">>}

\* C7: a well-formed stdout stream delivered in any chunks relays the same events
\* and yields the same terminal outcome as the stream delivered as one chunk.
C7_ChunkInvariance ==
    \A j \in Jobs :
        Closed(j) /\ WellFormedStream(stdoutRaw[j]) =>
            /\ sent[j] = chunkEvents(stdoutRaw[j])
            /\ promise[j] = Settle(Pending, closeSettles(exitCode[j], stdoutRaw[j], stderrRaw[j]))

\* the values of the round trip
RoundTripValues == {objK1, strEnd, objRawEmpty, JNum(7)}
Wrapped(v) == startMarker \o Serialize(v) \o endMarker

FirstWrapped(out, v, i) ==
    /\ StartsAt(out, Wrapped(v), i)
    /\ indexOf(out, startMarker) = i
    /\ indexOf(out, endMarker) = i + Len(startMarker) + Len(Serialize(v))

C9_RawFallback ==
    \A j \in Jobs :
        Closed(j) /\ exitCode[j] = 0 /\ ~BothMarkers(stdoutRaw[j]) =>
            promise[j] = Resolved(RawResult(stdoutRaw[j], stderrRaw[j]))

C9_Witness ==
    \E j \in Jobs :
        /\ Closed(j) /\ exitCode[j] = 0
        /\ indexOf(stdoutRaw[j], startMarker) # -1
        /\ indexOf(stdoutRaw[j], endMarker) = -1
        /\ nData[j] > 1
        /\ stderrRaw[j] # <<>>
        /\ promise[j] = Resolved(RawResult(stdoutRaw[j], stderrRaw[j]))

\* v is also the result of a run that took the raw fallback: the run of a worker
\* that writes v.rawOutput to stdout and v.rawError to stderr and exits with zero
FallbackTwin(v) ==
    /\ v.t = "obj"
    /\ Len(v.kv) = 2
    /\ v.kv[1][1] = rawOutputKey /\ v.kv[1][2].t = "str"
    /\ v.kv[2][1] = rawErrorKey /\ v.kv[2][2].t = "str"
    /\ ~BothMarkers(v.kv[1][2].s)
    /\ closeSettles(0, v.kv[1][2].s, v.kv[2][2].s) = <<Resolved(v)>>

\* C10: no result resolved from a sentinel-wrapped payload equals a result that
\* the raw fallback produces.
C10_FallbackObservable ==
    \A j \in Jobs :
        Closed(j) /\ exitCode[j] = 0 /\ BothMarkers(outputData[j])
            /\ promise[j].kind = "resolved"
        => ~FallbackTwin(promise[j].value)

\* every 'data' event of job j so far ended at the end of a line
LineAligned(j) == \A c \in cuts[j] : stdoutRaw[j][c] = "\n"

\* the text of a "[PARTIAL] ..." line after the tag
PartialText(l) == SubSeq(l, Len(partialTag) + 2, Len(l))
IsPartialLine(l) == StartsAt(l, partialTag \o <<" ">>, 0)
ValidPartial(l) == IsPartialLine(l) /\ JSONParse(PartialText(l)).ok
CorruptPartial(l) == IsPartialLine(l) /\ ~JSONParse(PartialText(l)).ok

\* the Partial events the valid partial lines among `lines` stand for, in order
RECURSIVE validPartials(_)
validPartials(lines) ==
    IF Len(lines) = 0 THEN <<>>
    ELSE (IF ValidPartial(Head(lines))
          THEN <<PartialEvent(JSONParse(PartialText(Head(lines))).v)>> ELSE <<>>)
         \o validPartials(Tail(lines))

\* the events of one channel among evs, in order
RECURSIVE onChannel(_, _)
onChannel(evs, ch) ==
    IF Len(evs) = 0 THEN <<>>
    ELSE (IF Head(evs).ch = ch THEN <<Head(evs)>> ELSE <<>>) \o onChannel(Tail(evs), ch)

\* a stream without its corrupt partial lines
RECURSIVE withoutCorrupt(_)
withoutCorrupt(s) ==
    LET i == indexOf(s, <<"\n">>)
    IN  IF i = -1 THEN s
        ELSE (IF CorruptPartial(SubSeq(s, 1, i)) THEN <<>> ELSE SubSeq(s, 1, i + 1))
             \o withoutCorrupt(SubSeq(s, i + 2, Len(s)))

\* some line of s is a corrupt partial line between two valid partial lines
CorruptBetweenValid(s) ==
    LET lines == split(s)
    IN  \E a, k, b \in 1..Len(lines) :
            /\ a < k /\ k < b
            /\ ValidPartial(lines[a]) /\ CorruptPartial(lines[k]) /\ ValidPartial(lines[b])

\* p and q are the same outcome: the same settlement, error, exit code and error
\* text, and the same structured result
SameOutcome(p, q, structured) ==
    /\ p.kind = q.kind /\ p.err = q.err /\ p.code = q.code /\ p.text = q.text
    /\ structured => p.value = q.value

\* C11: a stream delivered line by line that holds a corrupt [PARTIAL] line
\* between two valid ones relays exactly the Partial events of its valid lines,
\* the corrupt line settles nothing, and after 'close' the outcome is the one of
\* the stream without the corrupt line (the raw fallback carrying the raw text).
C11_CorruptPartialTolerated ==
    \A j \in Jobs :
        LineAligned(j) /\ CorruptBetweenValid(stdoutRaw[j]) =>
            /\ onChannel(sent[j], "backend-partial-result")
                   = validPartials(split(stdoutRaw[j]))
            /\ Alive(j) => ~Settled(j)
            /\ Closed(j) =>
                  SameOutcome(promise[j],
                              Settle(Pending, closeSettles(exitCode[j],
                                                           withoutCorrupt(stdoutRaw[j]),
                                                           stderrRaw[j])),
                              BothMarkers(stdoutRaw[j]))

C11_Witness ==
    \E j \in Jobs :
        /\ Closed(j) /\ LineAligned(j) /\ CorruptBetweenValid(stdoutRaw[j])
        /\ onChannel(sent[j], "backend-partial-result")
               = <<PartialEvent(objK1), PartialEvent(JNum(7))>>
        /\ promise[j] = Resolved(objK1)

\* a line of the shape "[PROGRESS] <integer>"
IsProgressLine(l) ==
    /\ StartsAt(l, progressTag \o <<" ">>, 0)
    /\ Len(l) > Len(progressTag) + 1
    /\ \A i \in (Len(progressTag) + 2)..Len(l) : l[i] \in Digits

\* s is a sequence of whole Progress and Partial lines
LineStream(s) ==
    LET lines == split(s)
    IN  /\ Len(s) > 0
        /\ lines[Len(lines)] = <<>>
        /\ \A k \in 1..(Len(lines) - 1) : IsProgressLine(lines[k]) \/ IsPartialLine(lines[k])

\* ev is an event of line l: a Partial event with the value of the line, or a
\* Progress event with the number of the line or of a part of its digits (the part
\* that a chunk boundary left in view)
FromLine(ev, l) ==
    \/ /\ ev.ch = "backend-partial-result"
       /\ ValidPartial(l)
       /\ ev.data = JSONParse(PartialText(l)).v
    \/ /\ ev.ch = "backend-progress"
       /\ IsProgressLine(l)
       /\ \E e \in (Len(progressTag) + 2)..Len(l) :
              ev.p = parseInt(SubSeq(l, Len(progressTag) + 2, e))

\* the events evs come from distinct lines among `lines`, in the order of the lines
RECURSIVE InLineOrder(_, _)
InLineOrder(evs, lines) ==
    IF Len(evs) = 0 THEN TRUE
    ELSE IF Len(lines) = 0 THEN FALSE
    ELSE IF FromLine(Head(evs), Head(lines)) THEN InLineOrder(Tail(evs), Tail(lines))
    ELSE InLineOrder(evs, Tail(lines))

\* C12: for a stream of Progress and Partial lines delivered in any chunks, the
\* events relayed come from the lines in the order of the lines in the stream;
\* delivered line by line, they are exactly the events of the stream in order.
C12_EventsInLineOrder ==
    \A j \in Jobs :
        LineStream(stdoutRaw[j]) =>
            /\ InLineOrder(sent[j], split(stdoutRaw[j]))
            /\ LineAligned(j) => sent[j] = chunkEvents(stdoutRaw[j])

C12_Witness ==
    \E j \in Jobs :
        /\ LineStream(stdoutRaw[j]) /\ ~LineAligned(j)
        /\ Len(sent[j]) >= 3
        /\ \E a, b \in 1..Len(sent[j]) :
              a < b /\ sent[j][a].ch = "backend-progress"
                    /\ sent[j][b].ch = "backend-partial-result"

\* C13: once the promise of a job has settled, no step sends a backend-progress or
\* backend-partial-result event for that job.
C13_NoEventAfterSettle ==
    [][\A j \in Jobs : Settled(j) => sent'[j] = sent[j]]_vars

C13_Witness ==
    \E i \in Jobs, j \in Jobs :
        /\ Closed(i) /\ Settled(i) /\ Len(sent[i]) > 0
        /\ Alive(j) /\ ~Settled(j) /\ Len(sent[j]) > 0

\* the step is the run-backend request of job j
RunBackendStep(j) == calls = j - 1 /\ calls' = j
\* the interpreter that run-backend resolves for job j exists
InterpreterFound(j) ==
    existsSync(files[j], IF isPackaged
                         THEN (IF bundledPythonExe \in files[j] THEN bundledPythonExe
                               ELSE externalPythonExe)
                         ELSE pythonCommand)

\* C14: a kill-backend step (it returns true) leaves the tracked handle none, and
\* a run-backend request whose interpreter is found spawns a worker and records
\* it as the tracked handle, whatever happened before.
C14_KillClearsRunTracks ==
    [][/\ KillBackend => activeBackendProcess' = 0
       /\ \A j \in Jobs :
             RunBackendStep(j) /\ InterpreterFound(j)' =>
                 /\ proc[j] = "none" /\ proc'[j] = "running"
                 /\ activeBackendProcess' = j]_vars

C14_Witness ==
    /\ calls = 2
    /\ killed[1] = "tracked"
    /\ proc[2] = "running" /\ killed[2] = "no"
    /\ activeBackendProcess = 2

\* a kill-backend request that found a worker alive (only kill-backend writes
\* the marks of killed)
KillBackendStep == killed' # killed

\* C15: a kill-backend step without a tracked job starts no taskkill command,
\* ends no process and leaves the tracked handle none.
C15_KillWithoutJobIsNoOp ==
    [][KillBackendStep /\ activeBackendProcess = 0 =>
           /\ activeBackendProcess' = activeBackendProcess /\ proc' = proc
           /\ exitCode' = exitCode /\ taskkill' = taskkill /\ child' = child]_vars

C15_Witness ==
    /\ killed[1] = "untracked" /\ proc[1] = "running"
    /\ calls = 2 /\ proc[2] = "closed" /\ killed[2] = "no"
    /\ activeBackendProcess = 0 /\ taskkill = {}

\* C16: once kill-backend has returned for a tracked worker and its termination
\* primitive has run, neither the worker nor a process it started is running.
C16_KillLeavesNothingRunning ==
    \A j \in Jobs :
        killed[j] = "tracked" /\ j \notin taskkill =>
            proc[j] # "running" /\ child[j] # "running"

\* no candidate of the mode of deployment exists in the file system job j found
NoInterpreter(j) ==
    IF isPackaged
    THEN bundledPythonExe \notin files[j] /\ externalPythonExe \notin files[j]
    ELSE pythonCommand \notin files[j]

\* C17: in both modes a request that finds no interpreter is rejected with the
\* not-found error and calls spawn for nothing.
C17_NoInterpreterRejects ==
    \A j \in Jobs :
        proc[j] # "none" /\ NoInterpreter(j) =>
            promise[j] = NotFoundError /\ spawnCall[j] = NoSpawn

\* C18: in packaged mode the interpreter spawned is the bundled one when it
\* exists and else the external one; the models directory is the default one
\* when it exists and else the external one, the same for every file system that
\* agrees on the models directory, whichever interpreter it holds.
C18_PackagedResolution ==
    \A j \in Jobs :
        isPackaged /\ spawnCall[j] # NoSpawn =>
            /\ spawnCall[j].file = IF bundledPythonExe \in files[j]
                                   THEN bundledPythonExe ELSE externalPythonExe
            /\ spawnCall[j].args[4] = IF defaultModelsDir \in files[j]
                                      THEN defaultModelsDir ELSE externalModelsDir
            /\ \A fs \in FileSystems :
                  (defaultModelsDir \in fs <=> defaultModelsDir \in files[j]) =>
                      spawnOf(TRUE, fs, request[j]).args[4] = spawnCall[j].args[4]

C18_Witness ==
    \E j \in Jobs :
        /\ isPackaged /\ proc[j] = "running"
        /\ bundledPythonExe \notin files[j] /\ defaultModelsDir \in files[j]
        /\ spawnCall[j].file = externalPythonExe
        /\ spawnCall[j].args[4] = defaultModelsDir

\* C19: in both modes the argument vector of the spawn is the entry script,
\* --json, --model_dir, the models directory, then the arguments of the request
\* as they were given.
C19_ArgumentVector ==
    \A j \in Jobs :
        spawnCall[j] # NoSpawn =>
            /\ SubSeq(spawnCall[j].args, 1, 4)
                  = << IF isPackaged THEN scriptPath ELSE pythonScript,
                       jsonFlag, modelDirFlag,
                       IF isPackaged THEN modelsDir(files[j]) ELSE devModelsDir >>
            /\ SubSeq(spawnCall[j].args, 5, Len(spawnCall[j].args)) = request[j]

C19_Witness ==
    \E j \in Jobs :
        /\ proc[j] = "running" /\ ~isPackaged
        /\ Len(request[j]) = 2 /\ request[j][2] = <<"-", "-", "a", "c", "t", "i", "o", "n">>
        /\ Len(spawnCall[j].args) = 6

\* the calls of S for which copyFile was called
copiesOf(S) == Cardinality({c \in S : cacheCalls[c].copied})

\* call d is the request after call c, made for the same source once c had
\* returned, and has returned too
InSuccession(c, d) ==
    /\ c \in 1..Len(cacheCalls) /\ d \in 1..Len(cacheCalls) /\ d = c + 1
    /\ cacheCalls[d].filePath = cacheCalls[c].filePath
    /\ c \in cacheCalls[d].after
    /\ cacheCalls[c].pc = "resolved" /\ cacheCalls[d].pc = "resolved"

\* no other request ran while call c or call d did: each was over before c was
\* made or was made after d had returned
Undisturbed(c, d) ==
    \A e \in 1..Len(cacheCalls) :
        /\ e < c => e \in cacheCalls[c].after
        /\ e > d => d \in cacheCalls[e].after

\* C20: two cache-video requests in succession for the same source, with no
\* other request running meanwhile, return the same path, the second one copies
\* nothing, and the two together make one copy when the first found no file at
\* the destination (none otherwise).
C20_CacheIdempotent ==
    \A c \in 1..MaxCacheCalls, d \in 1..MaxCacheCalls :
        InSuccession(c, d) /\ Undisturbed(c, d) =>
            /\ cacheCalls[d].ret = cacheCalls[c].ret
            /\ ~cacheCalls[d].copied
            /\ copiesOf({c, d}) = IF cacheCalls[c].found = "absent" THEN 1 ELSE 0

C20_Witness ==
    /\ InSuccession(1, 2)
    /\ cacheCalls[1].copied /\ cacheCalls[1].found = "absent"
    /\ cacheCalls[2].ret = cacheCalls[1].dest
    /\ cacheFiles[cacheCalls[1].dest] = "full"

\* what the normalized path n alone gives as the path returned, by mode
pureDest(packaged, n) ==
    IF startsWith(n, normalize(cacheDir(packaged))) THEN n
    ELSE join(cacheDir(packaged), hash12(n) \o <<"_">> \o basename(n))
pureDestOf == [pk \in BOOLEAN |-> [f \in AllSources |-> pureDest(pk, normalize(f))]]

C22_ConcurrentCallsSeeFullFile ==
    \A c \in 1..Len(cacheCalls) :
        cacheCalls[c].pc = "resolved" /\ cacheCalls[c].dest # <<>> =>
            /\ cacheCalls[c].atReturn = "full"
            /\ \A d \in 1..Len(cacheCalls) :
                  /\ cacheCalls[d].pc = "resolved"
                  /\ cacheCalls[d].filePath = cacheCalls[c].filePath
                  => cacheCalls[d].ret = cacheCalls[c].ret

\* the normalized path n is the directory dir or a path below it
liesInside(n, dir) == n = dir \/ startsWith(n, dir \o <<"/">>)
liesInsideOf == [pk \in BOOLEAN |->
                   [f \in AllSources |-> liesInside(normalize(f), normalize(cacheDir(pk)))]]

\* the step is a cache-video request
CacheVideoStep == Len(cacheCalls') = Len(cacheCalls) + 1

\* C23: a cache-video request whose normalized source lies in the cache directory
\* returns that normalized path, calls no copy and leaves the files of the cache
\* as they were (a directory that cannot be made is the one way it fails).
C23_CachedSourceReturned ==
    [][CacheVideoStep =>
          LET call == cacheCalls'[Len(cacheCalls')]
          IN  liesInsideOf[isPackaged][call.filePath] =>
                  /\ cacheFiles' = cacheFiles
                  /\ ~call.copied
                  /\ \/ call.pc = "resolved" /\ call.ret = normalizedInputOf[call.filePath]
                     \/ call.pc = "rejected" /\ ~cacheDirExists]_vars

C23_Witness ==
    \E c \in 1..Len(cacheCalls) :
        /\ liesInsideOf[isPackaged][cacheCalls[c].filePath]
        /\ cacheCalls[c].pc = "resolved"
        /\ cacheCalls[c].ret = cacheCalls[c].filePath
        /\ cacheFiles[cacheCalls[c].filePath] = "full"

\* C24: a cache-video request whose mkdirSync or copyFile failed is rejected and
\* returns no path, and a request is rejected for no other reason.
C24_FailurePropagates ==
    \A c \in 1..Len(cacheCalls) :
        /\ cacheCalls[c].error # "none" =>
              cacheCalls[c].pc = "rejected" /\ cacheCalls[c].ret = <<>>
        /\ cacheCalls[c].pc = "rejected" => cacheCalls[c].error # "none"

C24_Witness ==
    /\ Len(cacheCalls) = 2
    /\ cacheCalls[1].error = "mkdir" /\ cacheCalls[1].pc = "rejected"
    /\ cacheCalls[2].error = "copy" /\ cacheCalls[2].pc = "rejected"
    /\ cacheCalls[2].opened > 0

\* the latest request is a check-python-env whose script ran and whose 'close'
\* callback has run
CheckClosed == dep.kind = "check" /\ dep.pc = "closed" /\ dep.code >= 0

\* some part of the text is a JSON object
HasReport(text) ==
    \E i \in 1..Len(text), k \in 1..Len(text) :
        /\ i < k /\ text[i] = "{" /\ text[k] = "}"
        /\ JSONParse(SubSeq(text, i, k)).ok
\* the text holds no opening or no closing brace
NoBraces(text) == indexOf(text, <<"{">>) = -1 \/ indexOf(text, <<"}">>) = -1

\* C25 as stated: whenever the output of the diagnostic script holds no JSON
\* report, check-python-env resolves with success and an empty list.
C25_NoReportIsSuccess ==
    CheckClosed /\ ~HasReport(dep.output) => dep.result = Checked(JArr(<<>>))

\* C25: when the output of the diagnostic script holds no opening or no closing
\* brace, check-python-env resolves with success and an empty list if the script
\* ended with code zero, and with the non-zero-exit failure otherwise.
C25_NoReportByExitCode ==
    CheckClosed /\ NoBraces(dep.output) =>
        dep.result = IF dep.code = 0 THEN Checked(JArr(<<>>)) ELSE Failed(checkNonZero)

C25_Witness ==
    /\ CheckClosed /\ dep.output = AllGood /\ dep.code = 0
    /\ dep.result = Checked(JArr(<<>>))

\* the latest request of the two handlers has run its 'close' callback
DepClosed == dep.pc = "closed"
\* the output of the diagnostic script holds a report that JSON.parse accepts
\* between its first opening and its last closing brace
ReportParses(text) ==
    /\ ~NoBraces(text)
    /\ JSONParse(substring(text, indexOf(text, <<"{">>),
                           lastIndexOf(text, <<"}">>) + 1)).ok
\* a request was made and its promise is still pending
DepPending == dep.kind # "none" /\ dep.resolveCalls = 0
\* the promise of the latest request is resolved with a failure
DepFailure == dep.resolveCalls > 0 /\ ~dep.result.success /\ dep.result.has = {"error"}

\* C26 as stated: every non-zero exit of the child resolves with success=false.
C26_NonZeroExitFails ==
    DepClosed /\ dep.code # 0 => DepFailure

\* what each fault resolves the promise with, the first call of resolve
\* deciding: a missing interpreter, manifest or script, a spawn error, a
\* non-zero exit of the installer, a non-zero exit of the diagnostic script
\* without a parsable report and an unparsable report resolve with a failure; a
\* parsable report resolves with its list whatever the exit code.
C26_Outcomes ==
    /\ dep.pc = "done" => DepFailure /\ dep.resolveCalls = 1
    /\ dep.pc \in {"errored", "closed"} /\ dep.code = SpawnFailedCode =>
          /\ DepFailure
          /\ dep.result = depError(dep.kind, dep.spawn.file)[1]
          /\ dep.pc = "closed" => dep.resolveCalls >= 2
    /\ DepClosed /\ dep.kind = "fix" /\ dep.code # 0 => DepFailure
    /\ DepClosed /\ dep.kind = "check" /\ dep.code > 0 =>
          IF ReportParses(dep.output)
          THEN dep.result.success /\ dep.result.has = {"missing"}
          ELSE DepFailure
    /\ DepClosed /\ dep.kind = "check" /\ dep.code >= 0
          /\ ~NoBraces(dep.output) /\ ~ReportParses(dep.output) =>
          dep.result = Failed(<<"P", "a", "r", "s", "e", " ", "e", "r", "r", "o", "r", ":", " ">> \o syntaxMessage)
    /\ DepClosed => dep.resolveCalls > 0
    /\ dep.pc \in {"running", "failing", "exited"} => DepPending

\* C26: check-python-env and fix-python-env only resolve, and a request whose
\* child ends is settled: a missing interpreter, manifest or script, a spawn
\* error, a non-zero exit of the installer, a non-zero exit of the diagnostic
\* script without a parsable report and an unparsable report each resolve with
\* success=false, a parsable report resolves with success=true whatever the exit
\* code, and the first call of the close and error callbacks decides.
C26_SettlesStructured ==
    /\ []C26_Outcomes
    /\ (dep.kind # "none") ~> (dep.resolveCalls > 0)

C26_Witness ==
    /\ DepClosed /\ dep.kind = "check" /\ dep.code = 1
    /\ dep.output = ReportHead \o ReportTorch
    /\ dep.result.success /\ dep.result.has = {"missing"}

\* the text holds the part
contains(text, part) == indexOf(text, part) # -1

\* C27: when the installer run by fix-python-env ends with a non-zero code, the
\* failure the promise is resolved with carries everything the installer wrote
\* to stdout and everything it wrote to stderr.
C27_FailureCarriesCombinedOutput ==
    DepClosed /\ dep.kind = "fix" /\ dep.code > 0 =>
        /\ DepFailure
        /\ contains(dep.result.error, dep.output)
        /\ contains(dep.result.error, dep.errorOut)

\* job j is the latest request, its worker was spawned and has not closed, and
\* no kill-backend request was made since its spawn
LatestUnkilled(j) == j = calls /\ Alive(j) /\ killed[j] = "no"

\* C28: from the step that spawns it until its 'close' callback, the worker of
\* the latest run-backend request is the tracked handle as long as no
\* kill-backend request is made, whatever stream, exit and close callbacks run
\* in between, and a kill-backend request made then finds that worker.
C28_SpawnedWorkerIsTracked ==
    [][\A j \in Jobs :
          /\ RunBackendStep(j) /\ Alive(j)' => activeBackendProcess' = j
          /\ LatestUnkilled(j) =>
                /\ activeBackendProcess = j
                /\ KillBackend => killed'[j] = "tracked"]_vars

C28_Witness ==
    /\ calls = 2 /\ proc[1] = "closed" /\ killed[1] = "no"
    /\ nData[2] > 0 /\ proc[2] = "exited" /\ killed[2] = "tracked"
    /\ platform = "win32" /\ 2 \in taskkill

\* C29: once kill-backend has returned for the tracked worker of a job, no
\* backend-progress or backend-partial-result event of that job is sent to the
\* user interface any more.
C29_NoEventAfterKill ==
    [][\A j \in Jobs : killed[j] = "tracked" => sent'[j] = sent[j]]_vars

\* C30: when the worker of a run-backend request cannot be started (spawn gives
\* a child that reports an error), the promise of the request is settled with
\* a rejection.
C30_SpawnErrorRejects ==
    \A j \in Jobs : (proc[j] = "spawnerror") ~> (promise[j].kind = "rejected")

\* the step is a 'data' callback of the stderr of job j
StderrStep(j) == nErrData'[j] # nErrData[j]

\* C31: a 'data' callback of stderr sends no event and leaves the stdout buffer
\* alone, whatever the text, and the value a run that ended with code zero is
\* settled with is decoded from the text of stdout alone: the text of stderr
\* appears in it only as the rawError member of the fallback result.
C31_StderrNeverDecoded ==
    [][\A j \in Jobs :
          /\ StderrStep(j) =>
                /\ sent'[j] = sent[j] /\ outputData'[j] = outputData[j]
                /\ errorData'[j] = errorData[j] \o SubSeq(stderrRaw'[j], Len(stderrRaw[j]) + 1, Len(stderrRaw'[j]))
          /\ proc[j] = "exited" /\ proc'[j] = "closed" /\ exitCode[j] = 0 =>
                /\ outputData[j] = stdoutRaw[j]
                /\ promise'[j] =
                      IF indexOf(stdoutRaw[j], startMarker) # -1
                         /\ indexOf(stdoutRaw[j], endMarker) # -1
                      THEN closeSettles(0, stdoutRaw[j], <<>>)[1]
                      ELSE Resolved(RawResult(stdoutRaw[j], stderrRaw[j]))]_vars

C31_Witness ==
    /\ proc[1] = "closed" /\ exitCode[1] = 0
    /\ stdoutRaw[1] = TerminalHead /\ stderrRaw[1] = TerminalTail
    /\ sent[1] = <<>>
    /\ promise[1] = Resolved(RawResult(TerminalHead, TerminalTail))

\* the step is one of cache-video, of a copy it started, of fix-python-env or
\* check-python-env, or of the child one of them spawned
OtherHandlerStep ==
    \/ cacheCalls' # cacheCalls \/ cacheFiles' # cacheFiles
    \/ cacheDirExists' # cacheDirExists \/ dep' # dep
\* the step is the 'close' callback of the worker of job j
CloseStep(j) == proc[j] = "exited" /\ proc'[j] = "closed"

\* C32: only a run-backend request, the 'close' callback of a worker and a
\* kill-backend request change the tracked handle: the steps of cache-video,
\* fix-python-env and check-python-env and of the children they spawn leave
\* it as it is, and a kill-backend request leaves the child of a dependency
\* check or repair as it is.
C32_HandleOwnedByBackend ==
    [][/\ OtherHandlerStep => activeBackendProcess' = activeBackendProcess
       /\ activeBackendProcess' # activeBackendProcess =>
             \/ calls' = calls + 1 /\ activeBackendProcess' = calls'
             \/ KillBackendStep /\ activeBackendProcess' = 0
             \/ CloseStep(activeBackendProcess) /\ activeBackendProcess' = 0
       /\ KillBackendStep => dep' = dep /\ cacheCalls' = cacheCalls]_vars

C32_Witness ==
    /\ killed[1] = "tracked" /\ proc[1] = "exited" /\ activeBackendProcess = 0
    /\ dep.kind = "fix" /\ dep.pc = "running"
    /\ Len(cacheCalls) = 1 /\ cacheCalls[1].pc = "writing"

\* the tracked handle is none or a worker whose 'close' callback has not run
HandleNotClosed ==
    activeBackendProcess # 0 =>
        /\ activeBackendProcess <= calls
        /\ proc[activeBackendProcess] \in {"running", "exited", "spawnerror"}

\* C33: the 'close' callback of a worker clears the tracked handle when the
\* handle is that worker and leaves it as it is otherwise, so the close of an
\* older or killed worker never clears the handle of a newer job; and a tracked
\* handle that is not none is a worker whose 'close' callback has not run.
C33_CloseClearsOwnHandle ==
    /\ []HandleNotClosed
    /\ [][\A j \in Jobs :
             CloseStep(j) =>
                 activeBackendProcess' = IF activeBackendProcess = j THEN 0
                                         ELSE activeBackendProcess]_vars

C33_Witness ==
    /\ calls = 2 /\ killed[1] = "tracked" /\ proc[1] = "closed"
    /\ proc[2] = "running" /\ activeBackendProcess = 2

\* C34: once a kill-backend request has returned, forced termination has been
\* sent to every worker that was alive when it was made: a worker that is alive
\* is the tracked handle, or was marked by the kill-backend request that
\* terminated it.
C34_KillReachesEveryWorker ==
    \A j \in Jobs : Alive(j) => activeBackendProcess = j \/ killed[j] = "tracked"

\* the lines of a text that were ended by a newline
endedLines(text) == LET ls == split(text) IN SubSeq(ls, 1, Len(ls) - 1)
\* how many members of the sequence satisfy the test
CountIf(seq, Test(_)) == Cardinality({i \in 1..Len(seq) : Test(seq[i])})
IsProgressEvent(ev) == ev.ch = "backend-progress"

\* C35: the events sent for the stdout of a job are at most one for each line,
\* and the Progress events among them at most one for each line that is a
\* progress marker and nothing else.
C35_OneEventPerLine ==
    \A j \in Jobs :
        /\ Len(sent[j]) <= Len(endedLines(stdoutRaw[j]))
        /\ CountIf(sent[j], IsProgressEvent)
              <= CountIf(endedLines(stdoutRaw[j]), IsProgressLine)

\* C36: a job and a request to check or repair the environment that find the
\* same file system spawn the same interpreter.
C36_SameInterpreter ==
    \A j \in Jobs :
        /\ spawnCall[j] # NoSpawn /\ dep.spawn # NoSpawn
        /\ files[j] = dep.files
        => spawnCall[j].file = dep.spawn.file

(***************************************************************************)
(* Claims about the launcher script.                                       *)
(***************************************************************************)
\* the commands of line `line` that were run, as positions in bat.ran
RanAt(line) == {i \in 1..Len(bat.ran) : bat.ran[i].line = line}

\* tar -xf of python.zip was run and failed
TarFailed == \E i \in RanAt(26) : bat.ran[i].code # 0

\* C37: when the tar extraction of python.zip has failed (non-zero exit code),
\* PowerShell's Expand-Archive has been run by the time the launcher reports
\* that the Python environment is ready.
C37_TarFailureFallsBack ==
    TarFailed /\ 49 \in bat.echoed => RanAt(32) # {}

\* C38: the dev server is started at most twice and the repair npm install of
\* the error path runs at most once; a second start happens only after a
\* failed first start and a repair; and once the dev server is being started
\* the script reaches its end.
C38_Bounded ==
    /\ Cardinality(RanAt(126)) <= 2
    /\ Cardinality(RanAt(135)) <= 1
    /\ Cardinality(RanAt(126)) <= Cardinality(RanAt(135)) + 1
    /\ \A i \in RanAt(135) : \E d \in RanAt(126) : d < i /\ bat.ran[d].code >= 1

C38_RetryLoopTerminates ==
    []C38_Bounded /\ ((bat.pc = "START_DEV") ~> (bat.pc = "exit"))

\* the dev server failed twice, one repair ran in between, and the script is over
C38_Witness ==
    /\ bat.pc = "exit"
    /\ Cardinality(RanAt(126)) = 2
    /\ Cardinality(RanAt(135)) = 1
    /\ \A d \in RanAt(126) : bat.ran[d].code = 1

(***************************************************************************)
(* Claims about the Index-TTS settings panel.                              *)
(***************************************************************************)
\* C39: once the user has confirmed the reset dialog, every Index-TTS parameter
\* of the panel has its default value, and the values a mount of the panel
\* would load from localStorage are the defaults too, whatever was saved before.
C39_ResetPersists ==
    panel.handler = "confirmResetIndex" =>
        /\ panel.values = DefaultParams
        /\ loadConfig(localStorage) = DefaultParams

====
